---------------------------- MODULE Spec2Model ----------------------------
(***************************************************************************)
(* A model of the sce refactoring engine (slicer/src/slicer.rs and         *)
(* slicer/src/traverse.rs): the prefix-affects relation on names, the     *)
(* depth-first walker, the slicer (name lookup, target propagation,        *)
(* marking of unreferenced statements, range coalescing), the range        *)
(* applicator delete_ranges and the inliner.                               *)
(*                                                                         *)
(* Source text is a sequence of one-character strings; byte b of the text  *)
(* is element b+1 of the sequence.  A syntax tree is a sequence of node    *)
(* records in pre-order; a node is its index in that sequence and 0 stands *)
(* for "no node" (Option::None).                                           *)
(***************************************************************************)
EXTENDS Integers, Sequences, FiniteSets, TLC

\* ------------------------------------------------------------------------
\* Bounds of the input families
\* ------------------------------------------------------------------------

\* longest component sequence of a name drawn for the affects relation
MaxComponents == 2
\* most statements in the body of a function drawn for slicing
MaxStmts == 2
\* most ranges in a list drawn for delete_ranges
MaxRanges == 2
\* most arguments of a call, and parameters of a callee, drawn for inline
MaxArgs == 2

\* ------------------------------------------------------------------------
\* Sequences and text
\* ------------------------------------------------------------------------

Min(a, b) == IF a <= b THEN a ELSE b

Elems(s) == {s[i] : i \in 1..Len(s)}

Contains(s, e) == \E i \in 1..Len(s) : s[i] = e

RECURSIVE Concat(_)
\* the concatenation of a sequence of sequences
Concat(ss) == IF ss = <<>> THEN <<>> ELSE Head(ss) \o Concat(Tail(ss))

RECURSIVE SumSeq(_)
SumSeq(s) == IF s = <<>> THEN 0 ELSE Head(s) + SumSeq(Tail(s))

\* the bytes [from, to) of a text (Rust's &s[from..to])
Slice(text, from, to) == SubSeq(text, from + 1, to)

\* A text is the sequence of its bytes in UTF-8, as a Rust str is and as
\* tree-sitter counts byte offsets and columns. A byte below 0x80 is the
\* one-character string of its ASCII character; a byte from 0x80 is the
\* string of its two hexadecimal digits, so that U+00A0 is <<"C2", "A0">>.
Hex == <<"0", "1", "2", "3", "4", "5", "6", "7", "8", "9", "A", "B", "C", "D", "E", "F">>

\* the bytes from 0x80
HighBytes == {Hex[i] \o Hex[j] : i \in 9..16, j \in 1..16}

\* the number of bytes of the character that starts with the byte b
len_utf8(b) ==
    IF b \in {Hex[i] \o Hex[j] : i \in 13..14, j \in 1..16} THEN 2
    ELSE IF b \in {"E" \o Hex[j] : j \in 1..16} THEN 3
    ELSE IF b \in {"F" \o Hex[j] : j \in 1..8} THEN 4
    ELSE 1

\* str::is_char_boundary: the byte offset i of a text is its start, its
\* end, or the offset of a byte that is not a continuation byte (0x80..0xBF)
is_char_boundary(text, i) ==
    \/ i = 0
    \/ i = Len(text)
    \/ /\ i < Len(text)
       /\ text[i + 1] \notin {Hex[h] \o Hex[l] : h \in 9..12, l \in 1..16}

RECURSIVE Chars(_)
\* str::chars: the characters of a text, each as the sequence of its bytes
Chars(text) ==
    IF text = <<>> THEN <<>>
    ELSE LET n == Min(len_utf8(text[1]), Len(text))
         IN  <<SubSeq(text, 1, n)>> \o Chars(SubSeq(text, n + 1, Len(text)))

\* the characters of the Unicode property White_Space, each by its bytes:
\* U+0009..U+000D, U+0020, U+0085, U+00A0, U+1680, U+2000..U+200A, U+2028,
\* U+2029, U+202F, U+205F, U+3000
WhiteSpace ==
    {<<"\t">>, <<"\n">>, <<"">>, <<"\f">>, <<"\r">>, <<" ">>,
     <<"C2", "85">>, <<"C2", "A0">>, <<"E1", "9A", "80">>,
     <<"E2", "80", "A8">>, <<"E2", "80", "A9">>, <<"E2", "80", "AF">>,
     <<"E2", "81", "9F">>, <<"E3", "80", "80">>}
    \cup {<<"E2", "80", "8" \o Hex[j]>> : j \in 1..11}

\* char::is_whitespace, of a character given by its bytes
IsWhitespace(c) == c \in WhiteSpace

\* str::trim().is_empty()
IsBlank(s) == \A i \in 1..Len(Chars(s)) : IsWhitespace(Chars(s)[i])

RECURSIVE SplitLines(_)
\* str::split("\n"): the lines of a text, at least one
SplitLines(text) ==
    IF \E i \in 1..Len(text) : text[i] = "\n"
    THEN LET i == CHOOSE k \in 1..Len(text) :
                      text[k] = "\n" /\ \A j \in 1..(k - 1) : text[j] # "\n"
         IN  <<SubSeq(text, 1, i - 1)>> \o SplitLines(SubSeq(text, i + 1, Len(text)))
    ELSE <<text>>

RECURSIVE JoinLines(_)
\* [&str]::join("\n")
JoinLines(lines) ==
    IF lines = <<>> THEN <<>>
    ELSE IF Len(lines) = 1 THEN lines[1]
    ELSE lines[1] \o <<"\n">> \o JoinLines(Tail(lines))

\* the point (row, column) of byte b of a text
PointOfByte(text, b) ==
    LET nl == {i \in 1..b : text[i] = "\n"}
        last == IF nl = {} THEN 0 ELSE CHOOSE i \in nl : \A j \in nl : j <= i
    IN  <<Cardinality(nl), b - last>>

\* tree_sitter::Point ordering: row first, then column
PointLt(p, q) == p[1] < q[1] \/ (p[1] = q[1] /\ p[2] < q[2])
PointLte(p, q) == p = q \/ PointLt(p, q)

\* ------------------------------------------------------------------------
\* NameRef (slicer.rs:13-39)
\* ------------------------------------------------------------------------

\* a plausible slip: a strict prefix test in one direction only
affects_OneWay(a, b) ==
    /\ Len(a) <= Len(b)
    /\ \A i \in 1..Len(a) : a[i] = b[i]

\* a plausible slip: names affect each other only when they are equal
affects_Equal(a, b) == a = b

\* NameRef::affects: the first min(len) components agree
affects(a, b) ==
    LET len == Min(Len(a), Len(b))
    IN  \A i \in 1..len : a[i] = b[i]

\* ------------------------------------------------------------------------
\* The affects specification: two names are drawn, affects is applied
\* ------------------------------------------------------------------------

VARIABLES
    aff_a,       \* self.components
    aff_b,       \* other.components
    aff_pc,      \* "call" before affects is applied, "done" after
    aff_result   \* what affects returned

affVars == <<aff_a, aff_b, aff_pc, aff_result>>

ComponentNames == {"s", "x", "y"}

NameSeqs == UNION {[1..n -> ComponentNames] : n \in 0..MaxComponents}

IsPrefix(p, s) == Len(p) <= Len(s) /\ SubSeq(s, 1, Len(p)) = p

AffInit ==
    /\ aff_a \in NameSeqs
    /\ aff_b \in NameSeqs
    /\ aff_pc = "call"
    /\ aff_result = FALSE

AffIdle ==
    /\ aff_a = <<>>
    /\ aff_b = <<>>
    /\ aff_pc = "idle"
    /\ aff_result = FALSE

Affects ==
    /\ aff_pc = "call"
    /\ aff_result' = affects(aff_a, aff_b)
    /\ aff_pc' = "done"
    /\ UNCHANGED <<aff_a, aff_b>>

\* ------------------------------------------------------------------------
\* Syntax trees (tree_sitter::Tree as the parser returns it)
\* ------------------------------------------------------------------------

\* A term describes a piece of syntax: its kind, the field name it has in
\* its parent, the whitespace in front of it, its text if it is a leaf,
\* and its children.  Anonymous tokens are unnamed nodes whose kind is
\* their text.
Tok(kind, txt) == [k |-> kind, f |-> "", pre |-> <<>>, t |-> txt, c |-> <<>>, named |-> FALSE]
Lf(kind, txt) == [k |-> kind, f |-> "", pre |-> <<>>, t |-> txt, c |-> <<>>, named |-> TRUE]
Nd(kind, children) == [k |-> kind, f |-> "", pre |-> <<>>, t |-> <<>>, c |-> children, named |-> TRUE]
Fld(name, term) == [term EXCEPT !.f = name]
Pre(ws, term) == [term EXCEPT !.pre = ws]

RECURSIVE TermSize(_)
\* the number of nodes of a term
TermSize(t) == 1 + SumSeq([i \in 1..Len(t.c) |-> TermSize(t.c[i])])

RECURSIVE TermText(_)
\* the source text of a term, leading whitespace included
TermText(t) ==
    t.pre \o (IF t.c = <<>> THEN t.t
              ELSE Concat([i \in 1..Len(t.c) |-> TermText(t.c[i])]))

RECURSIVE BuildNodes(_, _, _, _)
\* the node records of a term in pre-order; the term's node gets index id,
\* its parent is par and its text (with leading whitespace) starts at byte off
BuildNodes(t, id, par, off) ==
    LET n == Len(t.c)
        start == off + Len(t.pre)
        childId(j) == id + 1 + SumSeq([i \in 1..(j - 1) |-> TermSize(t.c[i])])
        childOff(j) == start + SumSeq([i \in 1..(j - 1) |-> Len(TermText(t.c[i]))])
        self == [kind |-> t.k, field |-> t.f, named |-> t.named, parent |-> par,
                 children |-> [j \in 1..n |-> childId(j)],
                 start_byte |-> start, end_byte |-> off + Len(TermText(t))]
    IN  <<self>> \o Concat([j \in 1..n |-> BuildNodes(t.c[j], childId(j), id, childOff(j))])

\* the point of byte b of a text whose line feeds are the bytes of nl
PointAmong(nl, b) ==
    LET before == {i \in nl : i <= b}
        last == IF before = {} THEN 0 ELSE CHOOSE i \in before : \A j \in before : j <= i
    IN  <<Cardinality(before), b - last>>

\* the parse of a term: the tree with its root at index 1, each node with
\* its byte range and the points of its two ends
Parse(t) ==
    LET text == TermText(t)
        nl == {i \in 1..Len(text) : text[i] = "\n"}
        raw == BuildNodes(t, 1, 0, 0)
    IN  [i \in 1..Len(raw) |->
            [kind |-> raw[i].kind, field |-> raw[i].field, named |-> raw[i].named,
             parent |-> raw[i].parent, children |-> raw[i].children,
             start_byte |-> raw[i].start_byte, end_byte |-> raw[i].end_byte,
             start_point |-> PointAmong(nl, raw[i].start_byte),
             end_point |-> PointAmong(nl, raw[i].end_byte)]]

Nodes(T) == 1..Len(T)

\* Node::kind, Node::parent, Node::children
Kind(T, n) == T[n].kind
Parent(T, n) == T[n].parent
Children(T, n) == T[n].children

\* the position of n among its parent's children
ChildIndex(T, n) ==
    CHOOSE i \in 1..Len(Children(T, Parent(T, n))) : Children(T, Parent(T, n))[i] = n

\* Node::next_sibling: the next child of the parent, named or not; 0 if none
NextSibling(T, n) ==
    IF Parent(T, n) = 0 THEN 0
    ELSE LET sibs == Children(T, Parent(T, n))
             i == ChildIndex(T, n)
         IN  IF i < Len(sibs) THEN sibs[i + 1] ELSE 0

\* Node::child_by_field_name: the first child with that field name; 0 if none
ChildByFieldName(T, n, name) ==
    LET cs == Children(T, n)
        hits == {i \in 1..Len(cs) : T[cs[i]].field = name}
    IN  IF hits = {} THEN 0
        ELSE cs[CHOOSE i \in hits : \A j \in hits : i <= j]

\* the proper ancestors of a node
RECURSIVE Ancestors(_, _)
Ancestors(T, n) ==
    IF Parent(T, n) = 0 THEN {} ELSE {Parent(T, n)} \cup Ancestors(T, Parent(T, n))

\* the nodes of the subtree rooted at r
Subtree(T, r) == {n \in Nodes(T) : n = r \/ r \in Ancestors(T, n)}

\* Node::start_position, Node::end_position
StartPoint(T, n) == T[n].start_point
EndPoint(T, n) == T[n].end_point

\* the text of a node: &src[node.byte_range()]
NodeText(text, T, n) == Slice(text, T[n].start_byte, T[n].end_byte)

\* ------------------------------------------------------------------------
\* TreeCursor, as created by node.walk(): it never leaves its root
\* ------------------------------------------------------------------------

\* TreeCursor::goto_first_child: the first child, 0 if the node has none
GotoFirstChild(T, cur) ==
    IF Children(T, cur) = <<>> THEN 0 ELSE Children(T, cur)[1]

\* a plausible slip: the cursor moves to the next sibling of its own root
GotoNextSibling_Unbounded(T, root, cur) == NextSibling(T, cur)

\* TreeCursor::goto_next_sibling: 0 at the cursor's root or at a last child
GotoNextSibling(T, root, cur) ==
    IF cur = root THEN 0 ELSE NextSibling(T, cur)

\* TreeCursor::goto_parent: the cursor stays where it is at its root
GotoParent(T, root, cur) ==
    IF cur = root THEN cur ELSE Parent(T, cur)

\* a plausible slip: the first child whose end is after the point
GotoFirstChildForPoint_Beyond(T, cur, point) ==
    LET cs == Children(T, cur)
        hits == {i \in 1..Len(cs) : PointLt(point, EndPoint(T, cs[i]))}
    IN  IF hits = {} THEN 0
        ELSE cs[CHOOSE i \in hits : \A j \in hits : i <= j]

\* TreeCursor::goto_first_child_for_point: the first child whose end is at
\* or after the point; 0 if there is none
GotoFirstChildForPoint(T, cur, point) ==
    LET cs == Children(T, cur)
        hits == {i \in 1..Len(cs) : PointLte(point, EndPoint(T, cs[i]))}
    IN  IF hits = {} THEN 0
        ELSE cs[CHOOSE i \in hits : \A j \in hits : i <= j]

\* ------------------------------------------------------------------------
\* DepthFirstWalk (traverse.rs)
\* ------------------------------------------------------------------------

\* a plausible slip: the climb ends the walk at once, no sibling of an
\* ancestor is looked for
IterClimb_NoSibling(T, root, cur) == 0

RECURSIVE IterClimb(_, _, _)
\* the loop of Iterator::next (traverse.rs:35-46): climb until the root is
\* reached (0: the walk is done) or a next sibling is found
IterClimb(T, root, cur) ==
    LET par == GotoParent(T, root, cur)
    IN  IF par = root THEN 0
        ELSE IF GotoNextSibling(T, root, par) # 0 THEN GotoNextSibling(T, root, par)
        ELSE IterClimb(T, root, par)

\* one call of Iterator::next with the cursor at cur: where the cursor is
\* left (0 when done is set); the call returns the node cur
IterAdvance(T, root, cur) ==
    IF GotoFirstChild(T, cur) # 0 THEN GotoFirstChild(T, cur)
    ELSE IF GotoNextSibling(T, root, cur) # 0 THEN GotoNextSibling(T, root, cur)
    ELSE IterClimb(T, root, cur)

\* the smallest k with 2^k >= n
RECURSIVE Log2Ceil(_)
Log2Ceil(n) == IF n <= 1 THEN 0 ELSE 1 + Log2Ceil((n + 1) \div 2)

\* a call of Iterator::next (traverse.rs:21-47) on the walk st: the node
\* it returns is appended to out; cur = 0 stands for done = true
IterNext(T, root, st) ==
    IF st.cur = 0 THEN st
    ELSE [cur |-> IterAdvance(T, root, st.cur), out |-> Append(st.out, st.cur)]

RECURSIVE IterRun(_, _, _, _)
\* 2^k calls of Iterator::next, or as many as return a node
IterRun(T, root, st, k) ==
    IF k = 0 THEN IterNext(T, root, st)
    ELSE LET half == IterRun(T, root, st, k - 1)
         IN  IF half.cur = 0 THEN half ELSE IterRun(T, root, half, k - 1)

\* depth_first(root) used as an iterator: the nodes it yields, in order
depth_first(T, root) ==
    IterRun(T, root, [cur |-> root, out |-> <<>>], Log2Ceil(Len(T))).out

\* a plausible slip: the answer of cb is not looked at, the walk descends
\* into every node that has children
WalkStep_IgnoresStop(T, root, stop, st) ==
    IF st.mode = "visit"
    THEN LET ev == Append(st.events, [ev |-> "visit", from |-> st.cur, to |-> st.cur])
         IN  IF GotoFirstChild(T, st.cur) # 0
             THEN [mode |-> "visit", cur |-> GotoFirstChild(T, st.cur), node |-> st.cur,
                   events |-> Append(ev, [ev |-> "descent", from |-> st.cur,
                                          to |-> GotoFirstChild(T, st.cur)])]
             ELSE IF GotoNextSibling(T, root, st.cur) # 0
             THEN [mode |-> "visit", cur |-> GotoNextSibling(T, root, st.cur),
                   node |-> st.cur, events |-> ev]
             ELSE [mode |-> "ascend", cur |-> st.cur, node |-> st.cur, events |-> ev]
    ELSE IF st.mode = "ascend"
    THEN LET par == GotoParent(T, root, st.cur)
             ev == Append(st.events, [ev |-> "ascent", from |-> st.node, to |-> par])
         IN  IF par = root
             THEN [mode |-> "done", cur |-> par, node |-> par, events |-> ev]
             ELSE IF GotoNextSibling(T, root, par) # 0
             THEN [mode |-> "visit", cur |-> GotoNextSibling(T, root, par),
                   node |-> par, events |-> ev]
             ELSE [mode |-> "ascend", cur |-> par, node |-> par, events |-> ev]
    ELSE st

\* One round of a loop of traverse_with_depth (traverse.rs:54-87).  In mode
\* "visit" the walk is at the top of the outer loop with the cursor at cur;
\* in mode "ascend" it is at the top of the inner loop, node being the
\* local variable `node`.  The calls made are appended to events; cb
\* answers false exactly on the nodes of stop.
WalkStep(T, root, stop, st) ==
    IF st.mode = "visit"
    THEN LET ev == Append(st.events, [ev |-> "visit", from |-> st.cur, to |-> st.cur])
         IN  IF st.cur \notin stop /\ GotoFirstChild(T, st.cur) # 0
             THEN [mode |-> "visit", cur |-> GotoFirstChild(T, st.cur), node |-> st.cur,
                   events |-> Append(ev, [ev |-> "descent", from |-> st.cur,
                                          to |-> GotoFirstChild(T, st.cur)])]
             ELSE IF GotoNextSibling(T, root, st.cur) # 0
             THEN [mode |-> "visit", cur |-> GotoNextSibling(T, root, st.cur),
                   node |-> st.cur, events |-> ev]
             ELSE [mode |-> "ascend", cur |-> st.cur, node |-> st.cur, events |-> ev]
    ELSE IF st.mode = "ascend"
    THEN LET par == GotoParent(T, root, st.cur)
             ev == Append(st.events, [ev |-> "ascent", from |-> st.node, to |-> par])
         IN  IF par = root
             THEN [mode |-> "done", cur |-> par, node |-> par, events |-> ev]
             ELSE IF GotoNextSibling(T, root, par) # 0
             THEN [mode |-> "visit", cur |-> GotoNextSibling(T, root, par),
                   node |-> par, events |-> ev]
             ELSE [mode |-> "ascend", cur |-> par, node |-> par, events |-> ev]
    ELSE st

RECURSIVE WalkRun(_, _, _, _, _)
\* 2^k rounds of the walk, or as many as it takes to return
WalkRun(T, root, stop, st, k) ==
    IF k = 0 THEN WalkStep(T, root, stop, st)
    ELSE LET half == WalkRun(T, root, stop, st, k - 1)
         IN  IF half.mode = "done" THEN half ELSE WalkRun(T, root, stop, half, k - 1)

\* the walk depth_first(root) starts with
WalkStart(root) == [mode |-> "visit", cur |-> root, node |-> root, events |-> <<>>]

\* depth_first(root).traverse_with_depth(cb, on_descent, on_ascent): the
\* calls it makes, in order, as events (a call of cb is a "visit")
traverse_with_depth(T, root, stop) ==
    WalkRun(T, root, stop, WalkStart(root), Log2Ceil(2 * Len(T))).events

\* depth_first(root).traverse(cb): the nodes cb is called on, in order
traverse(T, root, stop) ==
    LET evs == traverse_with_depth(T, root, stop)
        seen == SelectSeq(evs, LAMBDA e : e.ev = "visit")
    IN  [i \in 1..Len(seen) |-> seen[i].from]

\* ------------------------------------------------------------------------
\* SlicerConfig for C (slicer_config.rs:104-146)
\* ------------------------------------------------------------------------

identifier_types == {"identifier", "field_identifier"}
name_types == {"identifier", "field_expression"}
constant_types ==
    {"null", "true", "false", "number_literal", "string_literal", "character_literal"}
propagating_types ==
    << [kind |-> "assignment_expression", defs |-> "left", refs |-> "right"],
       [kind |-> "init_declarator", defs |-> "declarator", refs |-> "value"] >>
statement_types == <<"_statement", "declaration">>
slice_scope_types == {"function_definition"}
function_call_types == {"call_expression"}

\* the statement kinds the C grammar's node-types.json lists under _statement
StatementSubtypes ==
    <<"break_statement", "case_statement", "compound_statement", "continue_statement",
      "do_statement", "expression_statement", "for_statement", "goto_statement",
      "if_statement", "labeled_statement", "return_statement", "switch_statement",
      "while_statement">>

\* the entries of the C grammar's node-types.json for the names the
\* configuration uses (slicer_config.rs:108): a supertype, and a type
\* without subtypes
CNodeTypes ==
    << [type |-> "_statement", subtypes |-> StatementSubtypes],
       [type |-> "declaration", subtypes |-> <<>>] >>

\* a plausible slip: an entry holds the subtypes without the type itself
ExpandEntry_SubtypesOnly(node_type) == node_type.subtypes

\* the vector built for one entry (slicer_config.rs:92-93): the type,
\* then its subtypes
ExpandEntry(node_type) == <<node_type.type>> \o node_type.subtypes

RECURSIVE ExpandOver(_, _)
\* the for loop of expand_node_types over the first n entries: an insert
\* replaces an earlier entry of the same type
ExpandOver(node_types, n) ==
    IF n = 0 THEN [t \in {} |-> <<>>]
    ELSE LET prev == ExpandOver(node_types, n - 1)
         IN  [t \in DOMAIN prev \cup {node_types[n].type} |->
                 IF t = node_types[n].type THEN ExpandEntry(node_types[n])
                 ELSE prev[t]]

\* expand_node_types (slicer_config.rs:88-98): a map with one key for
\* each declared type
expand_node_types(node_types) == ExpandOver(node_types, Len(node_types))

\* SlicerConfig.subtypes of the C configuration (slicer_config.rs:108)
subtypes == expand_node_types(CNodeTypes)

RECURSIVE AnyContains(_, _, _, _)
\* types.iter().any(..) from index i on (slicer.rs:88): indexing the map
\* with a key it does not hold panics; any stops at the first true
AnyContains(table, types, kind, i) ==
    IF i > Len(types) THEN "false"
    ELSE IF types[i] \notin DOMAIN table THEN "panic"
    ELSE IF Contains(table[types[i]], kind) THEN "true"
    ELSE AnyContains(table, types, kind, i + 1)

\* Slicer::contains_subtype
contains_subtype(types, kind) == AnyContains(subtypes, types, kind, 1) = "true"

\* ------------------------------------------------------------------------
\* Parser::set_language (slicer.rs:346 and 434)
\* ------------------------------------------------------------------------

\* tree_sitter::LANGUAGE_VERSION and MIN_COMPATIBLE_LANGUAGE_VERSION of the
\* library linked: the ABI versions of a language that a parser accepts
LANGUAGE_VERSION == 14
MIN_COMPATIBLE_LANGUAGE_VERSION == 13

\* Parser::set_language on a language of the given ABI version
set_language(version) ==
    IF MIN_COMPATIBLE_LANGUAGE_VERSION <= version /\ version <= LANGUAGE_VERSION
    THEN "Ok" ELSE "Err"

\* the ABI versions drawn for the grammar linked: too old, accepted, too new
LanguageVersions ==
    {MIN_COMPATIBLE_LANGUAGE_VERSION - 1, LANGUAGE_VERSION, LANGUAGE_VERSION + 1}

\* ------------------------------------------------------------------------
\* Slicer: names (slicer.rs:91-134)
\* ------------------------------------------------------------------------

\* Slicer::name_components: the texts of the identifier nodes under n,
\* read in text, which is self.src whatever tree n is a node of
name_components(text, T, n) ==
    LET ids == SelectSeq(depth_first(T, n), LAMBDA d : Kind(T, d) \in identifier_types)
    IN  [i \in 1..Len(ids) |-> NodeText(text, T, ids[i])]

\* &self.src[descendant.byte_range()] (slicer.rs:95) panics: an identifier
\* under n ends beyond the text, or starts or ends inside a character of it
name_components_panics(text, T, n) ==
    LET seen == depth_first(T, n)
    IN  \E i \in 1..Len(seen) :
           /\ Kind(T, seen[i]) \in identifier_types
           /\ \/ T[seen[i]].end_byte > Len(text)
              \/ ~is_char_boundary(text, T[seen[i]].start_byte)
              \/ ~is_char_boundary(text, T[seen[i]].end_byte)

RECURSIVE node_of_kind_for_point(_, _, _, _)
\* Slicer::node_of_kind_for_point with the cursor at cur: the first node of
\* one of the kinds on the way down to the point; 0 if there is none
node_of_kind_for_point(T, cur, kinds, point) ==
    IF Kind(T, cur) \in kinds THEN cur
    ELSE IF GotoFirstChildForPoint(T, cur, point) = 0 THEN 0
    ELSE node_of_kind_for_point(T, GotoFirstChildForPoint(T, cur, point),
                                kinds, point)

\* Slicer::name_at_point: the name node at the point; 0 if there is none
name_at_point(T, root, point) ==
    node_of_kind_for_point(T, root, name_types, point)

\* the nodes on which a callback that stops at names answers false
NameNodes(T) == {n \in Nodes(T) : Kind(T, n) \in name_types}

\* Slicer::referenced_names: the components of the outermost name nodes
\* under n, in document order
referenced_names(text, T, n) ==
    LET seen == traverse(T, n, NameNodes(T))
        names == SelectSeq(seen, LAMBDA d : Kind(T, d) \in name_types)
    IN  [i \in 1..Len(names) |-> name_components(text, T, names[i])]

\* ------------------------------------------------------------------------
\* Slicer::propagate_targets (slicer.rs:137-187)
\* ------------------------------------------------------------------------

\* the entry of propagating_types for a kind (the first that matches); 0 if none
PropagatingEntry(kind) ==
    LET hits == {i \in 1..Len(propagating_types) : propagating_types[i].kind = kind}
    IN  IF hits = {} THEN 0 ELSE CHOOSE i \in hits : \A j \in hits : i <= j

\* a plausible slip: two names count as overlapping as soon as they start
\* with the same component, so obj.other is taken to touch obj.field
PropagateNode_SharedHead(text, T, direction, names, d) ==
    LET e == PropagatingEntry(Kind(T, d))
    IN  IF e = 0 THEN names
        ELSE LET defs_node == ChildByFieldName(T, d, propagating_types[e].defs)
                 refs_node == ChildByFieldName(T, d, propagating_types[e].refs)
             IN  IF defs_node = 0 \/ refs_node = 0 THEN names
                 ELSE LET node_defs_names == referenced_names(text, T, defs_node)
                          node_refs_names == referenced_names(text, T, refs_node)
                      IN  IF direction = "Backward"
                          THEN IF \E t \in names : \E i \in 1..Len(node_defs_names) :
                                      Head(t) = Head(node_defs_names[i])
                               THEN names \cup Elems(node_refs_names)
                               ELSE names
                          ELSE IF \E t \in names : \E i \in 1..Len(node_refs_names) :
                                      Head(t) = Head(node_refs_names[i])
                               THEN names \cup Elems(node_defs_names)
                               ELSE names

\* a plausible slip: Forward adds the names of the refs field, as Backward
\* does, instead of those of the defs field
PropagateNode_ForwardAddsRefs(text, T, direction, names, d) ==
    LET e == PropagatingEntry(Kind(T, d))
    IN  IF e = 0 THEN names
        ELSE LET defs_node == ChildByFieldName(T, d, propagating_types[e].defs)
                 refs_node == ChildByFieldName(T, d, propagating_types[e].refs)
             IN  IF defs_node = 0 \/ refs_node = 0 THEN names
                 ELSE LET node_defs_names == referenced_names(text, T, defs_node)
                          node_refs_names == referenced_names(text, T, refs_node)
                      IN  IF direction = "Backward"
                          THEN IF \E t \in names : \E i \in 1..Len(node_defs_names) :
                                      affects(t, node_defs_names[i])
                               THEN names \cup Elems(node_refs_names)
                               ELSE names
                          ELSE IF \E t \in names : \E i \in 1..Len(node_refs_names) :
                                      affects(t, node_refs_names[i])
                               THEN names \cup Elems(node_refs_names)
                               ELSE names

\* the body of the for loop for one descendant (slicer.rs:146-178)
PropagateNode(text, T, direction, names, d) ==
    LET e == PropagatingEntry(Kind(T, d))
    IN  IF e = 0 THEN names
        ELSE LET defs_node == ChildByFieldName(T, d, propagating_types[e].defs)
                 refs_node == ChildByFieldName(T, d, propagating_types[e].refs)
             IN  IF defs_node = 0 \/ refs_node = 0 THEN names
                 ELSE LET node_defs_names == referenced_names(text, T, defs_node)
                          node_refs_names == referenced_names(text, T, refs_node)
                      IN  IF direction = "Backward"
                          THEN IF \E t \in names : \E i \in 1..Len(node_defs_names) :
                                      affects(t, node_defs_names[i])
                               THEN names \cup Elems(node_refs_names)
                               ELSE names
                          ELSE IF \E t \in names : \E i \in 1..Len(node_refs_names) :
                                      affects(t, node_refs_names[i])
                               THEN names \cup Elems(node_defs_names)
                               ELSE names

RECURSIVE PropagateOver(_, _, _, _, _, _, _)
\* the for loop (slicer.rs:145-179) over the descendants ds[lo..hi]
PropagateOver(text, T, direction, names, ds, lo, hi) ==
    IF lo > hi THEN names
    ELSE IF lo = hi THEN PropagateNode(text, T, direction, names, ds[lo])
    ELSE LET mid == (lo + hi) \div 2
             left == PropagateOver(text, T, direction, names, ds, lo, mid)
         IN  IF left = names
             THEN PropagateOver(text, T, direction, names, ds, mid + 1, hi)
             ELSE PropagateOver(text, T, direction, left, ds, mid + 1, hi)

\* a plausible slip: the pass looks at the first propagating node only
PropagatePass_FirstOnly(text, T, outer_scope, direction, names) ==
    LET ds == SelectSeq(depth_first(T, outer_scope),
                        LAMBDA d : PropagatingEntry(Kind(T, d)) # 0)
    IN  IF ds = <<>> THEN names ELSE PropagateNode(text, T, direction, names, ds[1])

\* one pass of the loop of propagate_targets over the enclosing function
PropagatePass(text, T, outer_scope, direction, names) ==
    LET ds == depth_first(T, outer_scope)
    IN  PropagateOver(text, T, direction, names, ds, 1, Len(ds))

\* ------------------------------------------------------------------------
\* Slicer::flatten_unreferenced (slicer.rs:191-261)
\* ------------------------------------------------------------------------

\* a plausible slip: on_ascent looks only at the child it comes up from
ReferencesStep_FromOnly(text, T, target_names, refs, e) ==
    IF e.ev = "visit"
    THEN IF /\ Kind(T, e.from) \in name_types
            /\ \E t \in target_names : affects(t, name_components(text, T, e.from))
         THEN refs \cup {e.from}
         ELSE refs
    ELSE IF e.ev = "ascent"
    THEN IF e.from \in refs THEN refs \cup {e.to} ELSE refs
    ELSE refs

\* the effect of one callback of the first walk on the references set:
\* cb marks a name node a target affects (slicer.rs:201-210), on_ascent
\* marks the parent if one of its children is marked (slicer.rs:214-223)
ReferencesStep(text, T, target_names, refs, e) ==
    IF e.ev = "visit"
    THEN IF /\ Kind(T, e.from) \in name_types
            /\ \E t \in target_names : affects(t, name_components(text, T, e.from))
         THEN refs \cup {e.from}
         ELSE refs
    ELSE IF e.ev = "ascent"
    THEN IF \E i \in 1..Len(Children(T, e.to)) : Children(T, e.to)[i] \in refs
         THEN refs \cup {e.to}
         ELSE refs
    ELSE refs

RECURSIVE ReferencesOver(_, _, _, _, _, _, _)
\* the callbacks evs[lo..hi] applied in order
ReferencesOver(text, T, target_names, refs, evs, lo, hi) ==
    IF lo > hi THEN refs
    ELSE IF lo = hi THEN ReferencesStep(text, T, target_names, refs, evs[lo])
    ELSE LET mid == (lo + hi) \div 2
             left == ReferencesOver(text, T, target_names, refs, evs, lo, mid)
         IN  IF left = refs
             THEN ReferencesOver(text, T, target_names, refs, evs, mid + 1, hi)
             ELSE ReferencesOver(text, T, target_names, left, evs, mid + 1, hi)

\* the references set after the first walk (slicer.rs:198-224)
References(text, T, target_func, target_names) ==
    LET evs == traverse_with_depth(T, target_func, NameNodes(T))
    IN  ReferencesOver(text, T, target_names, {}, evs, 1, Len(evs))

\* a plausible slip: the test of the statement kind left out
DeleteStep_AnyKind(T, refs, delete_nodes, statement) ==
    IF statement \notin refs
    THEN LET parent_deleted ==
                 \E a \in Ancestors(T, statement) : Contains(delete_nodes, a)
         IN  IF ~parent_deleted THEN Append(delete_nodes, statement)
             ELSE delete_nodes
    ELSE delete_nodes

\* a plausible slip: the check for an already deleted ancestor left out
DeleteStep_NoParentCheck(T, refs, delete_nodes, statement) ==
    IF ~contains_subtype(statement_types, Kind(T, statement)) THEN delete_nodes
    ELSE IF statement \notin refs THEN Append(delete_nodes, statement)
    ELSE delete_nodes

\* the callback of the second walk (slicer.rs:226-258)
DeleteStep(T, refs, delete_nodes, statement) ==
    IF ~contains_subtype(statement_types, Kind(T, statement)) THEN delete_nodes
    ELSE IF statement \notin refs
    THEN LET parent_deleted ==
                 \E a \in Ancestors(T, statement) : Contains(delete_nodes, a)
         IN  IF ~parent_deleted THEN Append(delete_nodes, statement)
             ELSE delete_nodes
    ELSE delete_nodes

RECURSIVE DeleteOver(_, _, _, _, _, _)
\* the callback applied to the nodes seen[lo..hi] in order
DeleteOver(T, refs, delete_nodes, seen, lo, hi) ==
    IF lo > hi THEN delete_nodes
    ELSE IF lo = hi THEN DeleteStep(T, refs, delete_nodes, seen[lo])
    ELSE LET mid == (lo + hi) \div 2
             left == DeleteOver(T, refs, delete_nodes, seen, lo, mid)
         IN  IF left = delete_nodes
             THEN DeleteOver(T, refs, delete_nodes, seen, mid + 1, hi)
             ELSE DeleteOver(T, refs, left, seen, mid + 1, hi)

\* Slicer::flatten_unreferenced: the statement nodes to delete, in order
flatten_unreferenced(text, T, target_func, target_names) ==
    LET refs == References(text, T, target_func, target_names)
        seen == traverse(T, target_func, {})
    IN  DeleteOver(T, refs, <<>>, seen, 1, Len(seen))

\* ------------------------------------------------------------------------
\* Slicer::coalesce_ranges (slicer.rs:264-323)
\* ------------------------------------------------------------------------

RECURSIVE NextOfAncestor(_, _)
\* the loop at slicer.rs:279-289: the next sibling of the nearest ancestor
\* of cur that has one; 0 if no ancestor has one
NextOfAncestor(T, cur) ==
    IF Parent(T, cur) = 0 THEN 0
    ELSE IF NextSibling(T, Parent(T, cur)) # 0 THEN NextSibling(T, Parent(T, cur))
    ELSE NextOfAncestor(T, Parent(T, cur))

\* a plausible slip: only the next sibling is looked at, no ancestor's
NextForCoalesce_SiblingOnly(T, end_node) == NextSibling(T, end_node)

\* the node a run can continue with after end_node (slicer.rs:274-289)
NextForCoalesce(T, end_node) ==
    IF NextSibling(T, end_node) # 0 THEN NextSibling(T, end_node)
    ELSE NextOfAncestor(T, end_node)

\* a plausible slip: the adjacency test left out, every following node joins
RunEnd_NoAdjacency(T, nodes, i) == Len(nodes)

RECURSIVE RunEnd(_, _, _)
\* the inner while loop (slicer.rs:273-308) from index i with end_node
\* nodes[i]: the index of the last node of the run
RunEnd(T, nodes, i) ==
    IF i + 1 <= Len(nodes) /\ NextForCoalesce(T, nodes[i]) = nodes[i + 1]
    THEN RunEnd(T, nodes, i + 1)
    ELSE i

\* a plausible slip: the range ends where the run's first node ends
RunRange_FirstOnly(T, first, last) ==
    [start_byte |-> T[first].start_byte, start_point |-> StartPoint(T, first),
     end_byte |-> T[first].end_byte, end_point |-> EndPoint(T, first)]

\* the range pushed for a run (slicer.rs:269, 310-317)
RunRange(T, first, last) ==
    [start_byte |-> T[first].start_byte, start_point |-> StartPoint(T, first),
     end_byte |-> T[last].end_byte, end_point |-> EndPoint(T, last)]

RECURSIVE CoalesceFrom(_, _, _)
CoalesceFrom(T, nodes, i) ==
    IF i > Len(nodes) THEN <<>>
    ELSE LET j == RunEnd(T, nodes, i)
         IN  <<RunRange(T, nodes[i], nodes[j])>> \o CoalesceFrom(T, nodes, j + 1)

\* Slicer::coalesce_ranges
coalesce_ranges(T, nodes) == CoalesceFrom(T, nodes, 1)

\* ------------------------------------------------------------------------
\* The C programs drawn for slicing, as the C parser parses them
\* ------------------------------------------------------------------------

Ch(c) == Tok(c, <<c>>)
KwInt == Lf("primitive_type", <<"i", "n", "t">>)

\* x, and s.z
Id(x) == Lf("identifier", <<x>>)
FieldExpr(a, b) ==
    Nd("field_expression",
       <<Fld("argument", Id(a)), Fld("operator", Ch(".")),
         Fld("field", Lf("field_identifier", <<b>>))>>)
Num(v) == Lf("number_literal", <<v>>)
\* l+r
Binary(l, r) ==
    Nd("binary_expression", <<Fld("left", l), Fld("operator", Ch("+")), Fld("right", r)>>)
\* l=r;
Assign(l, r) ==
    Nd("expression_statement",
       <<Nd("assignment_expression",
            <<Fld("left", l), Fld("operator", Ch("=")), Fld("right", r)>>),
         Ch(";")>>)
\* int x=v;
Decl(x, v) ==
    Nd("declaration",
       <<Fld("type", KwInt),
         Fld("declarator",
             Pre(<<" ">>, Nd("init_declarator",
                             <<Fld("declarator", Id(x)), Ch("="), Fld("value", v)>>))),
         Ch(";")>>)
\* return e;
Return(e) ==
    Nd("return_statement",
       <<Tok("return", <<"r", "e", "t", "u", "r", "n">>), Pre(<<" ">>, e), Ch(";")>>)
\* if(c)s
If(c, st) ==
    Nd("if_statement",
       <<Tok("if", <<"i", "f">>),
         Fld("condition", Nd("parenthesized_expression", <<Ch("("), c, Ch(")")>>)),
         Fld("consequence", st)>>)
\* {s1s2}
Block(sts) == Nd("compound_statement", <<Ch("{")>> \o sts \o <<Ch("}")>>)

\* int f(){ each statement on a line of its own }
FuncDef(name, sts) ==
    Nd("function_definition",
       <<Fld("type", KwInt),
         Fld("declarator",
             Pre(<<" ">>, Nd("function_declarator",
                             <<Fld("declarator", Id(name)),
                               Fld("parameters", Nd("parameter_list", <<Ch("("), Ch(")")>>))>>))),
         Fld("body",
             Nd("compound_statement",
                <<Ch("{")>> \o [i \in 1..Len(sts) |-> Pre(<<"\n">>, sts[i])]
                            \o <<Pre(<<"\n">>, Ch("}"))>>))>>)

\* int w;
GlobalDecl(x) ==
    Nd("declaration", <<Fld("type", KwInt), Fld("declarator", Pre(<<" ">>, Id(x))), Ch(";")>>)

\* the file: the function f with the drawn body, then a global declaration
Program(sts) ==
    Nd("translation_unit", <<FuncDef("f", sts), Pre(<<"\n">>, GlobalDecl("w"))>>)

SimpleStmts ==
    { Assign(FieldExpr("s", "z"), Id("x")),
      Assign(Id("s"), Id("w")),
      Assign(Id("w"), Binary(Id("x"), Id("y"))),
      Return(FieldExpr("s", "z")) }

CompoundStmts ==
    { If(Id("x"), Assign(Id("s"), Id("w"))),
      If(Id("w"), Return(Id("x"))),
      Block(<<Decl("y", Num("0")), Assign(Id("s"), Id("w")), Assign(Id("y"), Id("x"))>>) }

Stmts == SimpleStmts \cup CompoundStmts

Bodies == UNION {[1..n -> Stmts] : n \in 1..MaxStmts}

\* foo, bar, main
Word(chars) == Lf("identifier", chars)
\* foo.y
FieldOfWord(chars, b) ==
    Nd("field_expression",
       <<Fld("argument", Word(chars)), Fld("operator", Ch(".")),
         Fld("field", Lf("field_identifier", <<b>>))>>)

\* the statements of the function of scenario S1
S1Body ==
    << Decl("x", Num("0")),
       Decl("y", Num("0")),
       Assign(FieldExpr("s", "z"), Id("x")),
       Assign(Word(<<"f", "o", "o">>), Id("s")),
       Assign(FieldOfWord(<<"f", "o", "o">>, "y"), Word(<<"b", "a", "r">>)),
       Return(Id("x")) >>

\* int main(){int x=0;int y=0;s.z=x;foo=s;foo.y=bar;return x;}
S1Program ==
    Nd("translation_unit",
       <<Nd("function_definition",
            <<Fld("type", KwInt),
              Fld("declarator",
                  Pre(<<" ">>, Nd("function_declarator",
                                  <<Fld("declarator", Word(<<"m", "a", "i", "n">>)),
                                    Fld("parameters",
                                        Nd("parameter_list", <<Ch("("), Ch(")")>>))>>))),
              Fld("body", Nd("compound_statement", <<Ch("{")>> \o S1Body \o <<Ch("}")>>))>>)>>)

\* the function of scenario S5 written in C: a write to another field of
\* the object, a write to the object, and the use of the field
S5Body ==
    << Assign(FieldExpr("s", "y"), Id("v")),
       Assign(Id("s"),
              Nd("call_expression",
                 <<Fld("function", Id("g")),
                   Fld("arguments", Nd("argument_list", <<Ch("("), Ch(")")>>))>>)),
       Return(FieldExpr("s", "z")) >>

S5Program == Program(S5Body)

\* the function of scenario S2 written in C: c=a+1; d=b+1; return c+d;
S2Body ==
    << Assign(Id("c"), Binary(Id("a"), Num("1"))),
       Assign(Id("d"), Binary(Id("b"), Num("1"))),
       Return(Binary(Id("c"), Id("d"))) >>

S2Program == Program(S2Body)

\* the programs slice is applied to
SlicePrograms == {Program(body) : body \in Bodies} \cup {S1Program, S2Program, S5Program}

\* every point of a text: each row, each column up to the end of the line
PointsOf(text) ==
    LET lines == SplitLines(text)
    IN  UNION {{<<r - 1, c>> : c \in 0..Len(lines[r])} : r \in 1..Len(lines)}

\* ------------------------------------------------------------------------
\* Slicer::slice (slicer.rs:344-386), step by step
\* ------------------------------------------------------------------------

VARIABLES
    sl_language,      \* Slicer.config.language, by its ABI version
    sl_src,           \* Slicer.src
    sl_tree,          \* the parse of sl_src
    sl_point,         \* target_point
    sl_direction,     \* direction
    sl_pc,            \* where slice() is
    sl_target,        \* target_name.node
    sl_func,          \* target_func
    sl_names,         \* target_names, as a set of component sequences
    sl_delete_nodes,  \* delete_nodes
    sl_ranges,        \* delete_ranges
    sl_result         \* what slice() returns: <<"Ok">>, or an error with its point

sliceVars == <<sl_language, sl_src, sl_tree, sl_point, sl_direction, sl_pc, sl_target, sl_func,
               sl_names, sl_delete_nodes, sl_ranges, sl_result>>

\* a plausible slip: the whole file is taken as the scope of the slice
EnclosingScope_File(T, n) == 1

RECURSIVE EnclosingScope(_, _)
\* the loop at slicer.rs:370-375: the nearest node of a slice scope kind,
\* starting at n; 0 where parent().unwrap() panics
EnclosingScope(T, n) ==
    IF Kind(T, n) \in slice_scope_types THEN n
    ELSE IF Parent(T, n) = 0 THEN 0
    ELSE EnclosingScope(T, Parent(T, n))

\* a language the parser rejects is drawn with the three programs of the
\* scenarios: the outcome does not depend on the text
SliceInit ==
    /\ \E prog \in SlicePrograms :
          /\ sl_src = TermText(prog)
          /\ sl_tree = Parse(prog)
          /\ sl_language \in IF prog \in {S1Program, S2Program, S5Program}
                              THEN LanguageVersions ELSE {LANGUAGE_VERSION}
    /\ sl_point \in PointsOf(sl_src)
    /\ sl_direction \in {"Backward", "Forward"}
    /\ sl_pc = "slice"
    /\ sl_target = 0
    /\ sl_func = 0
    /\ sl_names = {}
    /\ sl_delete_nodes = <<>>
    /\ sl_ranges = <<>>
    /\ sl_result = <<"none">>

SliceIdle ==
    /\ sl_language = LANGUAGE_VERSION
    /\ sl_src = <<>>
    /\ sl_tree = <<>>
    /\ sl_point = <<0, 0>>
    /\ sl_direction = "Backward"
    /\ sl_pc = "idle"
    /\ sl_target = 0
    /\ sl_func = 0
    /\ sl_names = {}
    /\ sl_delete_nodes = <<>>
    /\ sl_ranges = <<>>
    /\ sl_result = <<"none">>

\* slicer.rs:345-348: the parser does not accept the language
SliceVersion ==
    /\ sl_pc = "slice"
    /\ set_language(sl_language) = "Err"
    /\ sl_pc' = "done"
    /\ sl_result' = <<"TreeSitterVersionError">>
    /\ UNCHANGED <<sl_language, sl_src, sl_tree, sl_point, sl_direction, sl_target, sl_func,
                   sl_names, sl_delete_nodes, sl_ranges>>

\* slicer.rs:359: no name at the point
SliceNoName ==
    /\ sl_pc = "slice"
    /\ set_language(sl_language) = "Ok"
    /\ name_at_point(sl_tree, 1, sl_point) = 0
    /\ sl_pc' = "done"
    /\ sl_result' = <<"NoNameAtPointError", sl_point>>
    /\ UNCHANGED <<sl_language, sl_src, sl_tree, sl_point, sl_direction, sl_target, sl_func,
                   sl_names, sl_delete_nodes, sl_ranges>>

\* slicer.rs:359-378: the target name, its enclosing function, the first target
SliceLocate ==
    /\ sl_pc = "slice"
    /\ set_language(sl_language) = "Ok"
    /\ name_at_point(sl_tree, 1, sl_point) # 0
    /\ LET target == name_at_point(sl_tree, 1, sl_point)
           func == EnclosingScope(sl_tree, target)
       IN  /\ sl_target' = target
           /\ sl_func' = func
           /\ sl_names' = {name_components(sl_src, sl_tree, target)}
           /\ sl_pc' = IF func = 0 THEN "done" ELSE "propagate"
           /\ sl_result' = IF func = 0 THEN <<"panic">> ELSE sl_result
    /\ UNCHANGED <<sl_language, sl_src, sl_tree, sl_point, sl_direction, sl_delete_nodes, sl_ranges>>

\* one round of the loop of propagate_targets (slicer.rs:142-184)
SlicePropagate ==
    /\ sl_pc = "propagate"
    /\ LET names == PropagatePass(sl_src, sl_tree, sl_func, sl_direction, sl_names)
       IN  /\ sl_names' = names
           /\ sl_pc' = IF Cardinality(names) = Cardinality(sl_names)
                       THEN "flatten" ELSE "propagate"
    /\ UNCHANGED <<sl_language, sl_src, sl_tree, sl_point, sl_direction, sl_target, sl_func,
                   sl_delete_nodes, sl_ranges, sl_result>>

\* slicer.rs:382
SliceFlatten ==
    /\ sl_pc = "flatten"
    /\ sl_delete_nodes' = flatten_unreferenced(sl_src, sl_tree, sl_func, sl_names)
    /\ sl_pc' = "coalesce"
    /\ UNCHANGED <<sl_language, sl_src, sl_tree, sl_point, sl_direction, sl_target, sl_func,
                   sl_names, sl_ranges, sl_result>>

\* slicer.rs:383-385
SliceCoalesce ==
    /\ sl_pc = "coalesce"
    /\ sl_ranges' = coalesce_ranges(sl_tree, sl_delete_nodes)
    /\ sl_pc' = "done"
    /\ sl_result' = <<"Ok">>
    /\ UNCHANGED <<sl_language, sl_src, sl_tree, sl_point, sl_direction, sl_target, sl_func,
                   sl_names, sl_delete_nodes>>

\* ------------------------------------------------------------------------
\* delete_ranges (slicer.rs:601-635), one round of its loop at a time
\* ------------------------------------------------------------------------

VARIABLES
    dr_src,           \* src
    dr_ranges,        \* ranges
    dr_anchor,        \* the target_point passed in
    dr_pc,            \* where delete_ranges is
    dr_k,             \* the index of the range the for loop takes next
    dr_i,             \* i
    dr_new,           \* new
    dr_target_point,  \* the local target_point
    dr_out            \* the text returned

deleteVars == <<dr_src, dr_ranges, dr_anchor, dr_pc, dr_k, dr_i, dr_new,
                dr_target_point, dr_out>>

\* the byte offset of a point of a text given by its lines
ByteOfPoint(lines, p) ==
    SumSeq([r \in 1..p[1] |-> Len(lines[r]) + 1]) + p[2]

\* the texts drawn: no letter occurs twice in a text; the third has lines
\* that end in a carriage return, the last a line that starts with U+00A0
DeleteSources ==
    { <<"a", "b", " ", "c", "d", "\n", " ", "e", "f", "\n", "g", "h">>,
      <<" ", "a", "b", "\n", "c", "d", " ", "e", "\n", "\n", "g", "h">>,
      <<"a", " ", "b", "\r", "\n", "c", "\r", "\n", "d">>,
      <<"a", "\n", "C2", "A0", "b", " ", "c">> }

\* the points of a text at which a character starts or a line ends
CharPointsOf(text) ==
    LET lines == SplitLines(text)
        starts(line) ==
            {SumSeq([k \in 1..n |-> Len(Chars(line)[k])]) : n \in 0..Len(Chars(line))}
    IN  UNION {{<<r - 1, c>> : c \in starts(lines[r])} : r \in 1..Len(lines)}

\* the tree_sitter::Range from point s to point e
RangeOf(lines, s, e) ==
    [start_byte |-> ByteOfPoint(lines, s), start_point |-> s,
     end_byte |-> ByteOfPoint(lines, e), end_point |-> e]

\* every range of a text that is not empty, between two characters as the
\* ranges of the nodes of a tree are
RangesOf(text) ==
    {RangeOf(SplitLines(text), s, e) : <<s, e>> \in
        {pq \in CharPointsOf(text) \X CharPointsOf(text) : PointLt(pq[1], pq[2])}}

\* the range lists drawn: sorted, no two overlapping
RangeLists(text) ==
    UNION {{rs \in [1..n -> RangesOf(text)] :
               \A k \in 1..(n - 1) : rs[k].end_byte <= rs[k + 1].start_byte}
           : n \in 0..MaxRanges}

\* the point lies in the range (start inclusive, end exclusive)
PointInRange(r, p) == PointLte(r.start_point, p) /\ PointLt(p, r.end_point)

\* the anchors drawn: a point on a letter, in none of the ranges
AnchorsOf(text, rs) ==
    {p \in CharPointsOf(text) :
        /\ p[2] < Len(SplitLines(text)[p[1] + 1])
        /\ SplitLines(text)[p[1] + 1][p[2] + 1] \notin HighBytes
        /\ ~IsWhitespace(<<SplitLines(text)[p[1] + 1][p[2] + 1]>>)
        /\ \A k \in 1..Len(rs) : ~PointInRange(rs[k], p)}

DeleteInit ==
    /\ dr_src \in DeleteSources
    /\ dr_ranges \in RangeLists(dr_src)
    /\ dr_anchor \in AnchorsOf(dr_src, dr_ranges)
    /\ dr_pc = "loop"
    /\ dr_k = 1
    /\ dr_i = 0
    /\ dr_new = <<>>
    /\ dr_target_point = dr_anchor
    /\ dr_out = <<>>

DeleteIdle ==
    /\ dr_src = <<>>
    /\ dr_ranges = <<>>
    /\ dr_anchor = <<0, 0>>
    /\ dr_pc = "idle"
    /\ dr_k = 1
    /\ dr_i = 0
    /\ dr_new = <<>>
    /\ dr_target_point = <<0, 0>>
    /\ dr_out = <<>>

\* slicer.rs:613: the text of the range's first line before the range
RangePrefix(src_lines, range) ==
    Slice(src_lines[range.start_point[1] + 1], 0, range.start_point[2])

\* slicer.rs:617: the text of the range's last line after the range
RangeSuffix(src_lines, range) ==
    Slice(src_lines[range.end_point[1] + 1], range.end_point[2],
          Len(src_lines[range.end_point[1] + 1]))

\* slicer.rs:626-629: the rows the anchor is moved up by for a range above it
DeletedLines(src_lines, range) ==
    (range.end_point[1] - range.start_point[1])
    + (IF IsBlank(RangePrefix(src_lines, range)) \/ IsBlank(RangeSuffix(src_lines, range))
       THEN 1 ELSE 0)

\* slicer.rs:609-631: the body of the for loop, for the range dr_ranges[dr_k]
DeleteRange ==
    /\ dr_pc = "loop"
    /\ dr_k <= Len(dr_ranges)
    /\ LET range == dr_ranges[dr_k]
           src_lines == SplitLines(dr_src)
           prefix == RangePrefix(src_lines, range)
           suffix == RangeSuffix(src_lines, range)
       IN  /\ dr_new' = dr_new
                  \o (IF dr_i < range.start_point[1]
                      THEN SubSeq(src_lines, dr_i + 1, range.start_point[1]) ELSE <<>>)
                  \o (IF ~IsBlank(prefix) THEN <<prefix>> ELSE <<>>)
                  \o (IF ~IsBlank(suffix) THEN <<suffix>> ELSE <<>>)
           /\ dr_i' = range.end_point[1] + 1
           /\ dr_target_point' =
                  IF range.end_point[1] < dr_target_point[1]
                  THEN <<dr_target_point[1] - DeletedLines(src_lines, range),
                         dr_target_point[2]>>
                  ELSE dr_target_point
    /\ dr_k' = dr_k + 1
    /\ UNCHANGED <<dr_src, dr_ranges, dr_anchor, dr_pc, dr_out>>

\* slicer.rs:632-634: the lines after the last range, and the join
DeleteFinish ==
    /\ dr_pc = "loop"
    /\ dr_k > Len(dr_ranges)
    /\ LET src_lines == SplitLines(dr_src)
           new == dr_new \o SubSeq(src_lines, dr_i + 1, Len(src_lines))
       IN  /\ dr_new' = new
           /\ dr_out' = JoinLines(new)
    /\ dr_pc' = "done"
    /\ UNCHANGED <<dr_src, dr_ranges, dr_anchor, dr_k, dr_i, dr_target_point>>

\* ------------------------------------------------------------------------
\* The queries of the C configuration (slicer_config.rs:120-144) and the
\* helpers of Slicer::inline
\* ------------------------------------------------------------------------

\* the kinds of the C grammar's _expression that the drawn programs use
ExpressionKinds ==
    {"identifier", "number_literal", "binary_expression", "call_expression",
     "field_expression", "assignment_expression", "parenthesized_expression"}

\* the nodes of a set in document order
InOrder(S) == SelectSeq([i \in 1..(IF S = {} THEN 0 ELSE CHOOSE m \in S : \A x \in S : x <= m)
                           |-> i], LAMBDA i : i \in S)

\* get_capture(call_args_query, "value", node): every expression that is a
\* child of the argument list of a call expression under node, the calls
\* nested in arguments included, in document order
call_args_capture(T, node) ==
    InOrder({n \in Subtree(T, node) \ {node} :
                /\ Kind(T, n) \in ExpressionKinds
                /\ Kind(T, Parent(T, n)) = "argument_list"
                /\ T[Parent(T, n)].field = "arguments"
                /\ Kind(T, Parent(T, Parent(T, n))) = "call_expression"})

\* the matches of function_query under node: one for each parameter
\* declaration of a function definition, with the four captured nodes
function_query_matches(T, node) ==
    LET hits == {n \in Subtree(T, node) :
                    /\ Kind(T, n) = "parameter_declaration"
                    /\ ChildByFieldName(T, n, "type") # 0
                    /\ ChildByFieldName(T, n, "declarator") # 0
                    /\ Kind(T, Parent(T, n)) = "parameter_list"
                    /\ T[Parent(T, n)].field = "parameters"
                    /\ Kind(T, Parent(T, Parent(T, n))) = "function_declarator"
                    /\ T[Parent(T, Parent(T, n))].field = "declarator"
                    /\ Kind(T, Parent(T, Parent(T, Parent(T, n)))) = "function_definition"
                    /\ ChildByFieldName(T, Parent(T, Parent(T, Parent(T, n))), "type") # 0
                    /\ ChildByFieldName(T, Parent(T, Parent(T, Parent(T, n))), "body") # 0}
        ord == InOrder(hits)
    IN  [i \in 1..Len(ord) |->
            LET def == Parent(T, Parent(T, Parent(T, ord[i])))
            IN  [param_name |-> ChildByFieldName(T, ord[i], "declarator"),
                 param_type |-> ChildByFieldName(T, ord[i], "type"),
                 function_type |-> ChildByFieldName(T, def, "type"),
                 function_body |-> ChildByFieldName(T, def, "body")]]

\* the matches of returns_query under node: each return statement that
\* returns an expression, with that expression
returns_query_matches(T, node) ==
    LET valueOf(n) ==
            LET cs == Children(T, n)
                hits == {i \in 1..Len(cs) : Kind(T, cs[i]) \in ExpressionKinds}
            IN  IF hits = {} THEN 0 ELSE cs[CHOOSE i \in hits : \A j \in hits : i <= j]
        ord == InOrder({n \in Subtree(T, node) :
                           Kind(T, n) = "return_statement" /\ valueOf(n) # 0})
    IN  [i \in 1..Len(ord) |-> [return_statement |-> ord[i], return_value |-> valueOf(ord[i])]]

\* s starts with p
StartsWith(s, p) == Len(p) <= Len(s) /\ SubSeq(s, 1, Len(p)) = p

RECURSIVE Replace(_, _, _)
\* str::replace: every match of pat in s, left to right, replaced by rep
Replace(s, pat, rep) ==
    IF s = <<>> THEN <<>>
    ELSE IF StartsWith(s, pat)
    THEN rep \o Replace(SubSeq(s, Len(pat) + 1, Len(s)), pat, rep)
    ELSE <<Head(s)>> \o Replace(Tail(s), pat, rep)

\* temp_var_format of the C configuration (slicer_config.rs:145)
temp_var_format ==
    <<"{", "t", "y", "p", "e", "}", " ", "{", "n", "a", "m", "e", "}", " ", "=", " ",
      "{", "v", "a", "l", "u", "e", "}", ";">>

\* InlineTempVar::format (slicer.rs:48-53)
format(temp, fmt) ==
    Replace(Replace(Replace(fmt, <<"{", "n", "a", "m", "e", "}">>, temp.name),
                    <<"{", "v", "a", "l", "u", "e", "}">>, temp.value),
            <<"{", "t", "y", "p", "e", "}">>, temp.typ)

\* the leading whitespace of a line
LeadingWhitespace(line) ==
    LET cs == Chars(line)
        n == IF \E i \in 1..Len(cs) : ~IsWhitespace(cs[i])
             THEN (CHOOSE i \in 1..Len(cs) :
                      ~IsWhitespace(cs[i]) /\ \A j \in 1..(i - 1) : IsWhitespace(cs[j])) - 1
             ELSE Len(cs)
    IN  Concat(SubSeq(cs, 1, n))

\* the whitespace a text ends with, last character first
TrailingWhitespaceReversed(text) ==
    LET cs == Chars(text)
        n == IF \E i \in 1..Len(cs) : ~IsWhitespace(cs[i])
             THEN Len(cs) - (CHOOSE i \in 1..Len(cs) :
                      ~IsWhitespace(cs[i]) /\ \A j \in (i + 1)..Len(cs) : IsWhitespace(cs[j]))
             ELSE Len(cs)
    IN  Concat([i \in 1..n |-> cs[Len(cs) + 1 - i]])

\* str::strip_prefix(p).unwrap_or(line)
StripPrefixOr(line, p) ==
    IF StartsWith(line, p) THEN SubSeq(line, Len(p) + 1, Len(line)) ELSE line

\* the replacement recorded for a name in a rename map (a set of pairs
\* <<components, text>>, one for each key); <<>> stands for no entry
RenameOf(rename_map, components) ==
    IF \E e \in rename_map : e[1] = components
    THEN <<(CHOOSE e \in rename_map : e[1] = components)[2]>>
    ELSE <<>>

\* HashMap::insert
RenameInsert(rename_map, components, text) ==
    {e \in rename_map : e[1] # components} \cup {<<components, text>>}

\* One call of the callback of a rendering walk (slicer.rs:413-425 and
\* 551-574) on node n of the tree T of src: st.out is the text written so
\* far, st.prev is prev_byte, and st.panic says that a name was read beyond
\* self_src.  A node of rewrite is replaced by nothing.  The names are
\* read in self_src (self.name_components), the text copied is src.
RenderStep(self_src, src, T, rewrite, rename_map, st, n) ==
    IF st.panic THEN st
    ELSE IF n \in rewrite
    THEN [out |-> st.out \o Slice(src, st.prev, T[n].start_byte),
          prev |-> T[n].end_byte, panic |-> FALSE]
    ELSE IF Kind(T, n) \notin name_types THEN st
    ELSE IF name_components_panics(self_src, T, n)
    THEN [out |-> st.out, prev |-> st.prev, panic |-> TRUE]
    ELSE IF RenameOf(rename_map, name_components(self_src, T, n)) # <<>>
    THEN [out |-> st.out \o Slice(src, st.prev, T[n].start_byte)
                         \o RenameOf(rename_map, name_components(self_src, T, n))[1],
          prev |-> T[n].end_byte, panic |-> FALSE]
    ELSE st

RECURSIVE RenderOver(_, _, _, _, _, _, _, _, _)
\* the callback applied to the nodes seen[lo..hi] in order
RenderOver(self_src, src, T, rewrite, rename_map, st, seen, lo, hi) ==
    IF lo > hi THEN st
    ELSE IF lo = hi THEN RenderStep(self_src, src, T, rewrite, rename_map, st, seen[lo])
    ELSE LET mid == (lo + hi) \div 2
             left == RenderOver(self_src, src, T, rewrite, rename_map, st, seen, lo, mid)
         IN  IF left = st
             THEN RenderOver(self_src, src, T, rewrite, rename_map, st, seen, mid + 1, hi)
             ELSE RenderOver(self_src, src, T, rewrite, rename_map, left, seen, mid + 1, hi)

\* the walk of root that stops at the nodes of rewrite and at names, then
\* the text up to end_byte (slicer.rs:551-575): the text written, and
\* whether the walk panicked
Render(self_src, src, T, root, rewrite, rename_map, start_byte, end_byte) ==
    LET seen == traverse(T, root, rewrite \cup NameNodes(T))
        st == RenderOver(self_src, src, T, rewrite, rename_map,
                         [out |-> <<>>, prev |-> start_byte, panic |-> FALSE],
                         seen, 1, Len(seen))
    IN  [out |-> st.out \o Slice(src, st.prev, end_byte), panic |-> st.panic]

\* Slicer::rewrite_names (slicer.rs:409-430) with self.src = self_src
rewrite_names(self_src, T, node, rename_map, src) ==
    Render(self_src, src, T, node, {}, rename_map, T[node].start_byte, T[node].end_byte)

\* ------------------------------------------------------------------------
\* The callers and callees drawn for inlining, as the C parser parses them
\* ------------------------------------------------------------------------

\* the terms separated by commas
RECURSIVE CommaList(_)
CommaList(ts) ==
    IF Len(ts) <= 1 THEN ts
    ELSE <<ts[1], Ch(",")>> \o CommaList(Tail(ts))

\* f(a1,a2)
Call(f, args) ==
    Nd("call_expression",
       <<Fld("function", Id(f)),
         Fld("arguments",
             Nd("argument_list", <<Ch("(")>> \o CommaList(args) \o <<Ch(")")>>))>>)

\* e;
ExprStmt(e) == Nd("expression_statement", <<e, Ch(";")>>)

\* int p
Param(p) ==
    Nd("parameter_declaration",
       <<Fld("type", KwInt), Fld("declarator", Pre(<<" ">>, Id(p)))>>)

\* the arguments drawn: a constant, a name, a call
ArgTerms == {Num("1"), Id("k"), Call("g", <<Num("2")>>)}

ArgLists == UNION {[1..n -> ArgTerms] : n \in 0..MaxArgs}

\* the callers drawn: the call as the right-hand side of an assignment on
\* an indented line of a function, and the call in a declaration at the
\* top of the file
CallerItems(args) ==
    { Nd("function_definition",
         <<Fld("type", KwInt),
           Fld("declarator",
               Pre(<<" ">>, Nd("function_declarator",
                               <<Fld("declarator", Id("m")),
                                 Fld("parameters",
                                     Nd("parameter_list", <<Ch("("), Ch(")")>>))>>))),
           Fld("body",
               Nd("compound_statement",
                  <<Ch("{"), Pre(<<"\n", " ", " ">>, Assign(Id("z"), Call("f", args))),
                    Pre(<<"\n">>, Ch("}"))>>))>>),
      Decl("z", Call("f", args)) }

\* the parameter names of the callees drawn
ParamNames == <<"a", "b", "c">>

\* the bodies drawn: empty, one return, no return on lines of its own, two
\* returns, a field of a parameter assigned and returned
CalleeBodies ==
    { Nd("compound_statement", <<Ch("{"), Ch("}")>>),
      Nd("compound_statement",
         <<Ch("{"), Assign(FieldExpr("a", "x"), Id("b")),
           Return(FieldExpr("a", "x")), Ch("}")>>),
      Nd("compound_statement",
         <<Ch("{"), Return(Binary(Id("a"), Id("b"))), Ch("}")>>),
      Nd("compound_statement",
         <<Ch("{"), Pre(<<"\n", " ", " ">>, ExprStmt(Call("h", <<Id("a")>>))),
           Pre(<<"\n", " ", " ">>, Assign(Id("b"), Id("a"))), Pre(<<"\n">>, Ch("}"))>>),
      Nd("compound_statement",
         <<Ch("{"), If(Id("a"), Return(Id("a"))), Return(Id("b")), Ch("}")>>) }

\* int f(int a,int b)body, with n parameters
Callee(n, body) ==
    Nd("function_definition",
       <<Fld("type", KwInt),
         Fld("declarator",
             Pre(<<" ">>, Nd("function_declarator",
                             <<Fld("declarator", Id("f")),
                               Fld("parameters",
                                   Nd("parameter_list",
                                      <<Ch("(")>>
                                      \o CommaList([i \in 1..n |-> Param(ParamNames[i])])
                                      \o <<Ch(")")>>))>>))),
         Fld("body", body)>>)

Callees == {Callee(n, body) : n \in 0..MaxArgs, body \in CalleeBodies}

\* the file that holds the items, each on a line of its own
File(items) ==
    Nd("translation_unit",
       [i \in 1..Len(items) |-> IF i = 1 THEN items[i] ELSE Pre(<<"\n">>, items[i])])

\* the points drawn for the call: the first point of the file, where no
\* call is, and the first two characters of each call expression of the file
CallPoints(T) ==
    LET calls == {n \in Nodes(T) : Kind(T, n) \in function_call_types}
    IN  {<<0, 0>>} \cup {StartPoint(T, n) : n \in calls}
        \cup {<<StartPoint(T, n)[1], StartPoint(T, n)[2] + 1>> : n \in calls}

\* the target points drawn: in the name of the function on the first line,
\* and the first point of the second line
TargetPoints == {<<0, 4>>, <<1, 0>>}

\* ------------------------------------------------------------------------
\* Slicer::inline (slicer.rs:432-595), step by step
\* ------------------------------------------------------------------------

VARIABLES
    inl_language,         \* Slicer.config.language, by its ABI version
    inl_src,              \* Slicer.src, the caller
    inl_tree,             \* the parse of inl_src
    inl_point,            \* point
    inl_target_content,   \* target_content, the callee's file
    inl_target_tree,      \* the parse of inl_target_content
    inl_target_point,     \* target_point
    inl_pc,               \* where inline() is
    inl_callsite,         \* callsite
    inl_call_args,        \* call_args
    inl_function_params,  \* function_params, with function_type and function_body
    inl_returns,          \* returns
    inl_k,                \* the index of the pair the for loop takes next
    inl_temps,            \* temps
    inl_rename_map,       \* rename_map
    inl_new_src,          \* new_src
    inl_callsite_text,    \* the text written for callsite_rewrite
    inl_result,           \* what inline() returns: <<"Ok">>, an error with its point, <<"panic">>
    inl_out               \* the text returned

inlineVars == <<inl_language, inl_src, inl_tree, inl_point, inl_target_content, inl_target_tree,
                inl_target_point, inl_pc, inl_callsite, inl_call_args,
                inl_function_params, inl_returns, inl_k, inl_temps, inl_rename_map,
                inl_new_src, inl_callsite_text, inl_result, inl_out>>

\* the variables inline() writes after it has located the call
inlineLocals == <<inl_callsite, inl_call_args, inl_function_params, inl_returns, inl_k,
                  inl_temps, inl_rename_map, inl_new_src, inl_callsite_text, inl_out>>

InlineLocalsInit ==
    /\ inl_callsite = 0
    /\ inl_call_args = <<>>
    /\ inl_function_params = <<>>
    /\ inl_returns = <<>>
    /\ inl_k = 1
    /\ inl_temps = <<>>
    /\ inl_rename_map = {}
    /\ inl_new_src = <<>>
    /\ inl_callsite_text = <<>>
    /\ inl_out = <<>>

\* a caller that ends in a comment with a character of two bytes:
\* int z=f(k);//<U+00E9>
CommentedCaller ==
    Nd("translation_unit",
       <<Decl("z", Call("f", <<Id("k")>>)), Lf("comment", <<"/", "/", "C3", "A9">>)>>)

InlineInit ==
    /\ \/ \E args \in ArgLists : \E caller \in CallerItems(args) :
             \* the callee's definition and the caller in one file, given as
             \* both texts (as the tests of the repository do, lang_tests.rs:108)
             \/ \E callee \in Callees :
                   /\ inl_src = TermText(File(<<callee, caller>>))
                   /\ inl_tree = Parse(File(<<callee, caller>>))
                   /\ inl_target_content = inl_src
                   /\ inl_target_tree = inl_tree
             \* each in a file of its own (main.rs:67 passes the target_content
             \* of the request)
             \/ /\ inl_src = TermText(File(<<caller>>))
                /\ inl_tree = Parse(File(<<caller>>))
                /\ \E callee \in Callees :
                      /\ inl_target_content = TermText(File(<<callee>>))
                      /\ inl_target_tree = Parse(File(<<callee>>))
       \* each in a file of its own, the caller's with a character of two
       \* bytes where names of the callee lie
       \/ /\ inl_src = TermText(CommentedCaller)
          /\ inl_tree = Parse(CommentedCaller)
          /\ \E callee \in Callees :
                /\ inl_target_content = TermText(File(<<callee>>))
                /\ inl_target_tree = Parse(File(<<callee>>))
    /\ inl_point \in CallPoints(inl_tree)
    /\ inl_target_point \in TargetPoints
    /\ inl_pc = "inline"
    /\ inl_result = <<"none">>
    /\ InlineLocalsInit
    /\ inl_language \in LanguageVersions

InlineIdle ==
    /\ inl_language = LANGUAGE_VERSION
    /\ inl_src = <<>>
    /\ inl_tree = <<>>
    /\ inl_point = <<0, 0>>
    /\ inl_target_content = <<>>
    /\ inl_target_tree = <<>>
    /\ inl_target_point = <<0, 0>>
    /\ inl_pc = "idle"
    /\ inl_result = <<"none">>
    /\ InlineLocalsInit

\* slicer.rs:446: the call expression at the point; 0 if there is none
CallsiteAt(T, point) == node_of_kind_for_point(T, 1, function_call_types, point)

\* slicer.rs:449: the function definition at the target point; 0 if none
FunctionDefinitionAt(T, point) == node_of_kind_for_point(T, 1, slice_scope_types, point)

\* slicer.rs:433-436: the parser does not accept the language
InlineVersion ==
    /\ inl_pc = "inline"
    /\ set_language(inl_language) = "Err"
    /\ inl_pc' = "done"
    /\ inl_result' = <<"TreeSitterVersionError">>
    /\ UNCHANGED <<inl_language, inl_src, inl_tree, inl_point, inl_target_content,
                   inl_target_tree, inl_target_point, inlineLocals>>

\* slicer.rs:446: no call at the point
InlineNoCall ==
    /\ inl_pc = "inline"
    /\ set_language(inl_language) = "Ok"
    /\ CallsiteAt(inl_tree, inl_point) = 0
    /\ inl_pc' = "done"
    /\ inl_result' = <<"NoCallAtPointError", inl_point>>
    /\ UNCHANGED <<inl_language, inl_src, inl_tree, inl_point, inl_target_content, inl_target_tree,
                   inl_target_point, inlineLocals>>

\* slicer.rs:449: no function definition at the target point
InlineNoFunction ==
    /\ inl_pc = "inline"
    /\ set_language(inl_language) = "Ok"
    /\ CallsiteAt(inl_tree, inl_point) # 0
    /\ FunctionDefinitionAt(inl_target_tree, inl_target_point) = 0
    /\ inl_pc' = "done"
    /\ inl_result' = <<"NoNameAtPointError", inl_target_point>>
    /\ UNCHANGED <<inl_language, inl_src, inl_tree, inl_point, inl_target_content, inl_target_tree,
                   inl_target_point, inlineLocals>>

\* slicer.rs:446-462: the call, the definition and the captures of the
\* three queries; function[0] panics when function_query has no match
InlineLocate ==
    /\ inl_pc = "inline"
    /\ set_language(inl_language) = "Ok"
    /\ CallsiteAt(inl_tree, inl_point) # 0
    /\ FunctionDefinitionAt(inl_target_tree, inl_target_point) # 0
    /\ LET callsite == CallsiteAt(inl_tree, inl_point)
           function_definition == FunctionDefinitionAt(inl_target_tree, inl_target_point)
           function == function_query_matches(inl_target_tree, function_definition)
       IN  /\ inl_callsite' = callsite
           /\ inl_call_args' = call_args_capture(inl_tree, callsite)
           /\ inl_function_params' = function
           /\ inl_returns' = IF function = <<>> THEN <<>>
                             ELSE returns_query_matches(inl_target_tree, function_definition)
           /\ inl_pc' = IF function = <<>> THEN "done" ELSE "pair"
           /\ inl_result' = IF function = <<>> THEN <<"panic">> ELSE inl_result
    /\ UNCHANGED <<inl_language, inl_src, inl_tree, inl_point, inl_target_content, inl_target_tree,
                   inl_target_point, inl_k, inl_temps, inl_rename_map, inl_new_src,
                   inl_callsite_text, inl_out>>

\* "inline_" + the parameter's text (slicer.rs:481)
InlineName(param_text) == <<"i", "n", "l", "i", "n", "e", "_">> \o param_text

\* slicer.rs:475-491: the body of the for loop, for the pair of
\* call_args[inl_k] and function_params[inl_k].  name_at_point reads the
\* components of the parameter's name in self.src (slicer.rs:120 and 95),
\* at the bytes the name has in target_content, and panics beyond it.
InlinePair ==
    /\ inl_pc = "pair"
    /\ inl_k <= Min(Len(inl_call_args), Len(inl_function_params))
    /\ LET arg == inl_call_args[inl_k]
           param_name_node == inl_function_params[inl_k].param_name
           param_type_node == inl_function_params[inl_k].param_type
           param_name == name_at_point(inl_target_tree, 1,
                                       StartPoint(inl_target_tree, param_name_node))
           components == name_components(inl_src, inl_target_tree, param_name)
           arg_text == NodeText(inl_src, inl_tree, arg)
           inline_name == InlineName(NodeText(inl_target_content, inl_target_tree, param_name))
       IN  IF param_name = 0
           THEN /\ inl_pc' = "done"
                /\ inl_result' = <<"NoNameAtPointError",
                                    StartPoint(inl_target_tree, param_name_node)>>
                /\ UNCHANGED <<inl_temps, inl_rename_map>>
           ELSE IF name_components_panics(inl_src, inl_target_tree, param_name)
           THEN /\ inl_pc' = "done"
                /\ inl_result' = <<"panic">>
                /\ UNCHANGED <<inl_temps, inl_rename_map>>
           ELSE /\ inl_pc' = "pair"
                /\ inl_result' = inl_result
                /\ IF Kind(inl_tree, arg) \in constant_types
                      \/ Kind(inl_tree, arg) \in name_types
                   THEN /\ inl_rename_map' = RenameInsert(inl_rename_map, components, arg_text)
                        /\ inl_temps' = inl_temps
                   ELSE /\ inl_temps' = Append(inl_temps,
                               [name |-> inline_name, value |-> arg_text,
                                typ |-> NodeText(inl_target_content, inl_target_tree,
                                                 param_type_node)])
                        /\ inl_rename_map' =
                               RenameInsert(inl_rename_map, components, inline_name)
    /\ inl_k' = inl_k + 1
    /\ UNCHANGED <<inl_language, inl_src, inl_tree, inl_point, inl_target_content, inl_target_tree,
                   inl_target_point, inl_callsite, inl_call_args, inl_function_params,
                   inl_returns, inl_new_src, inl_callsite_text, inl_out>>

\* slicer.rs:530-541: the bytes from the first named child of the body to
\* the end of the last, <<start_byte, end_byte>>
BodySpan_WholeBody(T, function_body) == <<T[function_body].start_byte, T[function_body].end_byte>>

BodySpan(T, function_body) ==
    LET cs == SelectSeq(Children(T, function_body), LAMBDA c : T[c].named)
        firstAt == {i \in 1..Len(cs) : T[cs[i]].start_byte # 0}
    IN  IF cs = <<>> THEN <<0, 0>>
        ELSE <<IF firstAt = {} THEN 0
               ELSE T[cs[CHOOSE i \in firstAt : \A j \in firstAt : i <= j]].start_byte,
               T[cs[Len(cs)]].end_byte>>

\* a plausible slip: the only return is not marked for removal
RewriteNodes_None(returns) == {}

\* slicer.rs:506-516: the nodes of rewrite_map, each rewritten to nothing
RewriteNodes(returns) ==
    IF Len(returns) = 1 THEN {returns[1].return_statement} ELSE {}

\* slicer.rs:523-527: the lines of the temporaries
TempLines(callsite_whitespace, temps) ==
    Concat([i \in 1..Len(temps) |->
               callsite_whitespace \o format(temps[i], temp_var_format) \o <<"\n">>])

\* slicer.rs:577-581: the lines of the rendered body, re-indented
BodyLines(callsite_whitespace, definition_whitespace, inline_src) ==
    LET lines == SplitLines(inline_src)
    IN  Concat([i \in 1..Len(lines) |->
                   callsite_whitespace \o StripPrefixOr(lines[i], definition_whitespace)
                   \o <<"\n">>])

\* slicer.rs:518-583: the text above the callsite line, the temporaries and
\* the rendered body, without its last character; a panic where the walk
\* of the body reads a name beyond self.src (slicer.rs:563)
InlineEmit ==
    /\ inl_pc = "pair"
    /\ inl_k > Min(Len(inl_call_args), Len(inl_function_params))
    /\ LET src_lines == SplitLines(inl_src)
           row == StartPoint(inl_tree, inl_callsite)[1]
           callsite_whitespace == LeadingWhitespace(src_lines[row + 1])
           function_body == inl_function_params[1].function_body
           span == BodySpan(inl_target_tree, function_body)
           definition_whitespace ==
               TrailingWhitespaceReversed(Slice(inl_target_content, 0, span[2]))
           walk == Render(inl_src, inl_target_content, inl_target_tree, function_body,
                          RewriteNodes(inl_returns), inl_rename_map, span[1], span[2])
           new_src == JoinLines(SubSeq(src_lines, 1, row)) \o <<"\n">>
                      \o TempLines(callsite_whitespace, inl_temps)
                      \o BodyLines(callsite_whitespace, definition_whitespace, walk.out)
       IN  IF walk.panic
           THEN /\ inl_pc' = "done"
                /\ inl_result' = <<"panic">>
                /\ inl_new_src' = inl_new_src
           ELSE /\ inl_pc' = "callsite"
                /\ inl_result' = inl_result
                /\ inl_new_src' = SubSeq(new_src, 1, Len(new_src) - 1)
    /\ UNCHANGED <<inl_language, inl_src, inl_tree, inl_point, inl_target_content, inl_target_tree,
                   inl_target_point, inl_callsite, inl_call_args, inl_function_params,
                   inl_returns, inl_k, inl_temps, inl_rename_map, inl_callsite_text,
                   inl_out>>

\* slicer.rs:585: the text of the callsite line before the callsite
CallsiteLinePrefix(src, T, callsite) ==
    Slice(SplitLines(src)[StartPoint(T, callsite)[1] + 1], 0, StartPoint(T, callsite)[2])

\* slicer.rs:592: the caller from the end of the callsite
CallsiteTail_FromStart(src, T, callsite) == Slice(src, T[callsite].start_byte, Len(src))

CallsiteTail(src, T, callsite) == Slice(src, T[callsite].end_byte, Len(src))

\* slicer.rs:585-594: the callsite line with the call rewritten, the rest
\* of the caller; a panic where rewrite_names reads a name of the return
\* value beyond self.src (slicer.rs:415)
InlineCallsite ==
    /\ inl_pc = "callsite"
    /\ LET rewritten == IF Len(inl_returns) = 1
                        THEN rewrite_names(inl_src, inl_target_tree,
                                           inl_returns[1].return_value, inl_rename_map,
                                           inl_target_content)
                        ELSE [out |-> <<>>, panic |-> FALSE]
       IN  IF rewritten.panic
           THEN /\ inl_result' = <<"panic">>
                /\ UNCHANGED <<inl_callsite_text, inl_out>>
           ELSE /\ inl_result' = <<"Ok">>
                /\ inl_callsite_text' = rewritten.out
                /\ inl_out' = inl_new_src
                              \o CallsiteLinePrefix(inl_src, inl_tree, inl_callsite)
                              \o rewritten.out
                              \o CallsiteTail(inl_src, inl_tree, inl_callsite)
    /\ inl_pc' = "done"
    /\ UNCHANGED <<inl_language, inl_src, inl_tree, inl_point, inl_target_content, inl_target_tree,
                   inl_target_point, inl_callsite, inl_call_args, inl_function_params,
                   inl_returns, inl_k, inl_temps, inl_rename_map, inl_new_src>>

\* ------------------------------------------------------------------------
\* The service handlers (sce/src/main.rs:34-71), one unwrap at a time
\* ------------------------------------------------------------------------

VARIABLES
    svc_kind,          \* the handler called: "slice" or "inline"
    svc_source,        \* req.source is Some
    svc_language,      \* source.language
    svc_guess,         \* what guess_language gives for the file: a language or "None"
    svc_point,         \* source.point is Some
    svc_target_point,  \* req.target_point is Some
    svc_engine,        \* what engine.slice or engine.inline returns
    svc_pc,            \* where the handler is
    svc_lang,          \* lang in make_engine
    svc_response       \* the handler's result: <<"Ok">>, <<"Err", e>> or <<"panic", e>>

serviceVars == <<svc_kind, svc_source, svc_language, svc_guess, svc_point,
                 svc_target_point, svc_engine, svc_pc, svc_lang, svc_response>>

\* the language tags drawn: none, a language with a configuration, a
\* language without one, and no language at all
LanguageTags == {"", "C", "Python", "Klingon"}

\* Language::from_str (main.rs:37): the language a tag names, "Err" if none
FromStr(tag) == IF tag \in {"C", "Python"} THEN tag ELSE "Err"

\* from_guessed_language (slicer_config.rs:100-342): only C has a configuration
from_guessed_language(lang) == IF lang = "C" THEN "Some" ELSE "None"

\* what guess_language can give for a file
GuessOutcomes == {"C", "Python", "None"}

\* how the engine's operation can end: with Ok, with one of its errors
\* (slicer.rs:346-348, 359, 446, 449), or in a panic of its own (slicer.rs:95,
\* 374, 460)
EngineResults(kind) ==
    IF kind = "slice"
    THEN {"Ok", "TreeSitterVersionError", "NoNameAtPointError", "panic"}
    ELSE {"Ok", "TreeSitterVersionError", "NoCallAtPointError", "NoNameAtPointError", "panic"}

ServiceInit ==
    /\ svc_kind \in {"slice", "inline"}
    /\ svc_source \in BOOLEAN
    /\ svc_language \in LanguageTags
    /\ svc_guess \in GuessOutcomes
    /\ svc_point \in BOOLEAN
    /\ svc_target_point \in BOOLEAN
    /\ svc_engine \in EngineResults(svc_kind)
    /\ svc_pc = "request"
    /\ svc_lang = "none"
    /\ svc_response = <<"none">>

ServiceIdle ==
    /\ svc_kind = "slice"
    /\ svc_source = TRUE
    /\ svc_language = ""
    /\ svc_guess = "C"
    /\ svc_point = TRUE
    /\ svc_target_point = TRUE
    /\ svc_engine = "Ok"
    /\ svc_pc = "idle"
    /\ svc_lang = "none"
    /\ svc_response = <<"none">>

\* main.rs:53 and 63: req.source.unwrap()
ServiceSource ==
    /\ svc_pc = "request"
    /\ IF svc_source
       THEN svc_pc' = "language" /\ svc_response' = svc_response
       ELSE svc_pc' = "done" /\ svc_response' = <<"panic", "NoSource">>
    /\ UNCHANGED <<svc_kind, svc_source, svc_language, svc_guess, svc_point,
                   svc_target_point, svc_engine, svc_lang>>

\* main.rs:35-38: the language guessed or named, unwrapped
ServiceLanguage ==
    /\ svc_pc = "language"
    /\ LET lang == IF svc_language = "" THEN svc_guess ELSE FromStr(svc_language)
       IN  IF lang \in {"None", "Err"}
           THEN /\ svc_pc' = "done"
                /\ svc_response' = <<"panic", "UnknownLanguage">>
                /\ svc_lang' = svc_lang
           ELSE /\ svc_pc' = "config"
                /\ svc_response' = svc_response
                /\ svc_lang' = lang
    /\ UNCHANGED <<svc_kind, svc_source, svc_language, svc_guess, svc_point,
                   svc_target_point, svc_engine>>

\* main.rs:39: from_guessed_language(lang).unwrap()
ServiceConfig ==
    /\ svc_pc = "config"
    /\ IF from_guessed_language(svc_lang) = "None"
       THEN svc_pc' = "done" /\ svc_response' = <<"panic", "UnknownLanguage">>
       ELSE svc_pc' = "engine" /\ svc_response' = svc_response
    /\ UNCHANGED <<svc_kind, svc_source, svc_language, svc_guess, svc_point,
                   svc_target_point, svc_engine, svc_lang>>

\* main.rs:56-58 and 67-69: the points unwrapped, the engine called, its
\* result unwrapped, the response; a panic of the engine (svc_engine =
\* "panic") unwinds through the handler like that of an unwrap
ServiceEngine ==
    /\ svc_pc = "engine"
    /\ svc_pc' = "done"
    /\ svc_response' =
          IF ~svc_point \/ (svc_kind = "inline" /\ ~svc_target_point)
          THEN <<"panic", "NoPoint">>
          ELSE IF svc_engine # "Ok" THEN <<"panic", svc_engine>>
          ELSE <<"Ok">>
    /\ UNCHANGED <<svc_kind, svc_source, svc_language, svc_guess, svc_point,
                   svc_target_point, svc_engine, svc_lang>>

\* ------------------------------------------------------------------------
\* DepthFirstWalk run on drawn trees: the iterator, then traverse_with_depth
\* ------------------------------------------------------------------------

\* the largest number of nodes of a drawn tree
MaxNodes == 5

RECURSIVE TreeShapes(_), Forests(_)
\* the trees of exactly n nodes, and the sequences of trees of m nodes in all
TreeShapes(n) ==
    IF n = 1 THEN {Lf("leaf", <<"x">>)}
    ELSE {Nd("inner", f) : f \in Forests(n - 1)}
Forests(m) ==
    IF m = 0 THEN {<<>>}
    ELSE UNION {{<<t>> \o f : t \in TreeShapes(k), f \in Forests(m - k)} : k \in 1..m}

VARIABLES
    wk_tree,    \* the tree the walk's root is a node of
    wk_root,    \* DepthFirstWalk.root
    wk_stop,    \* the nodes on which cb answers false
    wk_pc,      \* "iter": the for loop over the iterator; "walk": traverse_with_depth
    wk_cur,     \* the iterator's cursor; 0 once done is set
    wk_yield,   \* what the calls of next() have returned, 0 for None
    wk_walk     \* the state of traverse_with_depth and the calls it has made

walkVars == <<wk_tree, wk_root, wk_stop, wk_pc, wk_cur, wk_yield, wk_walk>>

WalkInit ==
    /\ \E n \in 1..MaxNodes : \E t \in TreeShapes(n) : wk_tree = Parse(t)
    /\ wk_root \in Nodes(wk_tree)
    /\ wk_stop \in SUBSET Subtree(wk_tree, wk_root)
    /\ wk_pc = "iter"
    /\ wk_cur = wk_root
    /\ wk_yield = <<>>
    /\ wk_walk = WalkStart(wk_root)

WalkIdle ==
    /\ wk_tree = <<>>
    /\ wk_root = 0
    /\ wk_stop = {}
    /\ wk_pc = "idle"
    /\ wk_cur = 0
    /\ wk_yield = <<>>
    /\ wk_walk = WalkStart(0)

\* one call of next() by the for loop (traverse.rs:21-47); the loop ends
\* with the first None
WalkIterNext ==
    /\ wk_pc = "iter"
    /\ IF wk_cur = 0
       THEN /\ wk_yield' = Append(wk_yield, 0)
            /\ wk_cur' = wk_cur
            /\ wk_pc' = "walk"
       ELSE LET st == IterNext(wk_tree, wk_root, [cur |-> wk_cur, out |-> wk_yield])
            IN  /\ wk_yield' = st.out
                /\ wk_cur' = st.cur
                /\ wk_pc' = wk_pc
    /\ UNCHANGED <<wk_tree, wk_root, wk_stop, wk_walk>>

\* one round of a loop of traverse_with_depth (traverse.rs:59-86)
WalkRound ==
    /\ wk_pc = "walk"
    /\ wk_walk' = WalkStep(wk_tree, wk_root, wk_stop, wk_walk)
    /\ wk_pc' = IF wk_walk'.mode = "done" THEN "done" ELSE wk_pc
    /\ UNCHANGED <<wk_tree, wk_root, wk_stop, wk_cur, wk_yield>>

\* ------------------------------------------------------------------------
\* The loop of propagate_targets, pass by pass: the library's
\* (slicer.rs:137-187) and the stand-alone binary's (main.rs:235-271)
\* ------------------------------------------------------------------------

\* the function of the claim about the binary: x = x + 1; return x;
IncrementBody ==
    << Assign(Id("x"), Binary(Id("x"), Num("1"))), Return(Id("x")) >>

IncrementProgram == Program(IncrementBody)

\* the programs the loops are run on
PropagatePrograms == SlicePrograms \cup {IncrementProgram}

\* the propagating descendants of outer_scope that have both fields, in
\* the order of depth_first, each with the names of its two fields
\* (slicer.rs:146-158, main.rs:243-254)
PropagatingOf(text, T, outer_scope) ==
    LET both(d) ==
            LET e == PropagatingEntry(Kind(T, d))
            IN  /\ e # 0
                /\ ChildByFieldName(T, d, propagating_types[e].defs) # 0
                /\ ChildByFieldName(T, d, propagating_types[e].refs) # 0
        ds == SelectSeq(depth_first(T, outer_scope), both)
    IN  [i \in 1..Len(ds) |->
            LET e == PropagatingEntry(Kind(T, ds[i]))
            IN  [kind |-> Kind(T, ds[i]),
                 defs |-> Elems(referenced_names(text, T,
                              ChildByFieldName(T, ds[i], propagating_types[e].defs))),
                 refs |-> Elems(referenced_names(text, T,
                              ChildByFieldName(T, ds[i], propagating_types[e].refs)))]]

\* the propagating_types of the binary's configuration (main.rs:51-53)
binary_propagating_types == {"assignment_expression"}

VARIABLES
    pg_src,         \* Slicer.src
    pg_tree,        \* the parse of pg_src
    pg_func,        \* outer_scope
    pg_nodes,       \* the propagating descendants of outer_scope
    pg_direction,   \* direction
    pg_initial,     \* the one name of initial_target_names
    pg_names,       \* target_names
    pg_len_before,  \* len_before (slicer.rs:143)
    pg_changed,     \* changed (main.rs:241)
    pg_pc           \* where the loop is: before a pass, or at its exit test

propagateVars == <<pg_src, pg_tree, pg_func, pg_nodes, pg_direction, pg_initial,
                   pg_names, pg_len_before, pg_changed, pg_pc>>

\* slice up to the call of propagate_targets (slicer.rs:359-380,
\* main.rs:357-376): a name at a point, inside a function
PropagateInit ==
    /\ \E prog \in PropagatePrograms :
          /\ pg_src = TermText(prog)
          /\ pg_tree = Parse(prog)
    /\ \E point \in PointsOf(pg_src) :
          LET target == name_at_point(pg_tree, 1, point)
          IN  /\ target # 0
              /\ EnclosingScope(pg_tree, target) # 0
              /\ pg_func = EnclosingScope(pg_tree, target)
              /\ pg_initial = name_components(pg_src, pg_tree, target)
    /\ pg_nodes = PropagatingOf(pg_src, pg_tree, pg_func)
    /\ pg_direction \in {"Backward", "Forward"}
    /\ pg_names = {pg_initial}
    /\ pg_len_before = 0
    /\ pg_changed = FALSE
    /\ pg_pc = "loop"

PropagateIdle ==
    /\ pg_src = <<>>
    /\ pg_tree = <<>>
    /\ pg_func = 0
    /\ pg_nodes = <<>>
    /\ pg_direction = "Backward"
    /\ pg_initial = <<>>
    /\ pg_names = {}
    /\ pg_len_before = 0
    /\ pg_changed = FALSE
    /\ pg_pc = "idle"

\* a plausible slip: the names of the node replace the target names
LibraryNode_ForgetsOld(direction, names, nd) ==
    IF direction = "Backward"
    THEN IF \E t \in names : \E d \in nd.defs : affects(t, d)
         THEN nd.refs
         ELSE names
    ELSE IF \E t \in names : \E r \in nd.refs : affects(t, r)
         THEN nd.defs
         ELSE names

\* the body of the for loop of the library for one propagating node
\* (slicer.rs:160-177)
LibraryNode(direction, names, nd) ==
    IF direction = "Backward"
    THEN IF \E t \in names : \E d \in nd.defs : affects(t, d)
         THEN names \cup nd.refs
         ELSE names
    ELSE IF \E t \in names : \E r \in nd.refs : affects(t, r)
         THEN names \cup nd.defs
         ELSE names

RECURSIVE LibraryFor(_, _, _, _)
\* the for loop of the library (slicer.rs:145-179) from node i on
LibraryFor(nodes, i, direction, names) ==
    IF i > Len(nodes) THEN names
    ELSE LibraryFor(nodes, i + 1, direction, LibraryNode(direction, names, nodes[i]))

\* the body of the for loop of the binary for one propagating node
\* (main.rs:244-262): st is target_names with changed
BinaryNode(st, nd) ==
    IF /\ nd.kind \in binary_propagating_types
       /\ \E t \in st.names : \E s \in nd.refs : affects(t, s)
    THEN [names |-> st.names \cup nd.defs,
          changed |-> (st.names \cap nd.defs) # {}]
    ELSE st

RECURSIVE BinaryFor(_, _, _)
\* the for loop of the binary (main.rs:243-263) from node i on
BinaryFor(nodes, i, st) ==
    IF i > Len(nodes) THEN st
    ELSE BinaryFor(nodes, i + 1, BinaryNode(st, nodes[i]))

\* slicer.rs:143-179: len_before is taken, the for loop runs
LibraryPass ==
    /\ pg_pc = "loop"
    /\ pg_len_before' = Cardinality(pg_names)
    /\ pg_names' = LibraryFor(pg_nodes, 1, pg_direction, pg_names)
    /\ pg_pc' = "test"
    /\ UNCHANGED <<pg_src, pg_tree, pg_func, pg_nodes, pg_direction, pg_initial,
                   pg_changed>>

\* slicer.rs:181-183: break if no name was added, else the next pass
LibraryTest ==
    /\ pg_pc = "test"
    /\ pg_pc' = IF Cardinality(pg_names) = pg_len_before THEN "returned" ELSE "loop"
    /\ UNCHANGED <<pg_src, pg_tree, pg_func, pg_nodes, pg_direction, pg_initial,
                   pg_names, pg_len_before, pg_changed>>

\* main.rs:241-263: changed is cleared, the for loop runs
BinaryPass ==
    /\ pg_pc = "loop"
    /\ LET st == BinaryFor(pg_nodes, 1, [names |-> pg_names, changed |-> FALSE])
       IN  /\ pg_names' = st.names
           /\ pg_changed' = st.changed
    /\ pg_pc' = "test"
    /\ UNCHANGED <<pg_src, pg_tree, pg_func, pg_nodes, pg_direction, pg_initial,
                   pg_len_before>>

\* main.rs:265-267: break if not changed, else the next pass
BinaryTest ==
    /\ pg_pc = "test"
    /\ pg_pc' = IF ~pg_changed THEN "returned" ELSE "loop"
    /\ UNCHANGED <<pg_src, pg_tree, pg_func, pg_nodes, pg_direction, pg_initial,
                   pg_names, pg_len_before, pg_changed>>

\* ------------------------------------------------------------------------
\* The subtype table: expand_node_types at the construction of a
\* configuration (slicer_config.rs:88-98, 108), then contains_subtype
\* (slicer.rs:87-89)
\* ------------------------------------------------------------------------

\* the longest list of type names a configuration gives
MaxTypes == 2

\* entries a node-types.json can hold: supertypes with their subtypes
\* and types without subtypes
NodeTypeEntries ==
    << [type |-> "_statement", subtypes |-> <<"if_statement", "return_statement">>],
       [type |-> "declaration", subtypes |-> <<>>],
       [type |-> "if_statement", subtypes |-> <<>>],
       [type |-> "_expression", subtypes |-> <<"identifier">>] >>

\* the descriptors: the entries picked from NodeTypeEntries, in its order
Descriptors ==
    {SelectSeq([i \in 1..Len(NodeTypeEntries) |-> i], LAMBDA i : i \in pick) :
        pick \in SUBSET (1..Len(NodeTypeEntries))}

DescriptorOf(picks) == [i \in 1..Len(picks) |-> NodeTypeEntries[picks[i]]]

\* the type names a configuration can give
TypeNames == {"_statement", "declaration", "_expression"}

\* the kinds of the nodes contains_subtype is asked about
NodeKinds == {"if_statement", "return_statement", "declaration", "identifier"}

VARIABLES
    st_node_types,  \* the descriptor parsed from node_types_json
    st_types,       \* types, the list of a configuration
    st_kind,        \* node.kind()
    st_subtypes,    \* SlicerConfig.subtypes
    st_pc,          \* construction of the configuration, the lookup, done
    st_result       \* what contains_subtype gave: "true", "false" or "panic"

subtypeVars == <<st_node_types, st_types, st_kind, st_subtypes, st_pc, st_result>>

SubtypeInit ==
    /\ \E picks \in Descriptors : st_node_types = DescriptorOf(picks)
    /\ st_types \in UNION {[1..n -> TypeNames] : n \in 1..MaxTypes}
    /\ st_kind \in NodeKinds
    /\ st_subtypes = <<>>
    /\ st_pc = "config"
    /\ st_result = "none"

SubtypeIdle ==
    /\ st_node_types = <<>>
    /\ st_types = <<>>
    /\ st_kind = ""
    /\ st_subtypes = <<>>
    /\ st_pc = "idle"
    /\ st_result = "none"

\* slicer_config.rs:108: the table is built with the configuration
SubtypeExpand ==
    /\ st_pc = "config"
    /\ st_subtypes' = expand_node_types(st_node_types)
    /\ st_pc' = "lookup"
    /\ UNCHANGED <<st_node_types, st_types, st_kind, st_result>>

\* slicer.rs:87-89: contains_subtype(types, node)
SubtypeContains ==
    /\ st_pc = "lookup"
    /\ st_result' = AnyContains(st_subtypes, st_types, st_kind, 1)
    /\ st_pc' = "done"
    /\ UNCHANGED <<st_node_types, st_types, st_kind, st_subtypes>>

\* ------------------------------------------------------------------------
\* Specifications
\* ------------------------------------------------------------------------

vars == <<affVars, sliceVars, deleteVars, inlineVars, serviceVars, walkVars, propagateVars, subtypeVars>>

\* affects applied to two drawn names
InitAffects == AffInit /\ SliceIdle /\ DeleteIdle /\ InlineIdle /\ ServiceIdle /\ WalkIdle /\ PropagateIdle /\ SubtypeIdle
NextAffects == Affects /\ UNCHANGED <<sliceVars, deleteVars, inlineVars, serviceVars, walkVars, propagateVars, subtypeVars>>
SpecAffects == InitAffects /\ [][NextAffects]_vars

\* slice applied to a drawn program, point and direction
InitSlice == SliceInit /\ AffIdle /\ DeleteIdle /\ InlineIdle /\ ServiceIdle /\ WalkIdle /\ PropagateIdle /\ SubtypeIdle
NextSlice ==
    \/ SliceVersion /\ UNCHANGED <<affVars, deleteVars, inlineVars, serviceVars, walkVars, propagateVars, subtypeVars>>
    \/ SliceNoName /\ UNCHANGED <<affVars, deleteVars, inlineVars, serviceVars, walkVars, propagateVars, subtypeVars>>
    \/ SliceLocate /\ UNCHANGED <<affVars, deleteVars, inlineVars, serviceVars, walkVars, propagateVars, subtypeVars>>
    \/ SlicePropagate /\ UNCHANGED <<affVars, deleteVars, inlineVars, serviceVars, walkVars, propagateVars, subtypeVars>>
    \/ SliceFlatten /\ UNCHANGED <<affVars, deleteVars, inlineVars, serviceVars, walkVars, propagateVars, subtypeVars>>
    \/ SliceCoalesce /\ UNCHANGED <<affVars, deleteVars, inlineVars, serviceVars, walkVars, propagateVars, subtypeVars>>
SpecSlice == InitSlice /\ [][NextSlice]_vars

\* delete_ranges applied to a drawn text, range list and anchor
InitDelete == DeleteInit /\ AffIdle /\ SliceIdle /\ InlineIdle /\ ServiceIdle /\ WalkIdle /\ PropagateIdle /\ SubtypeIdle
NextDelete ==
    \/ DeleteRange /\ UNCHANGED <<affVars, sliceVars, inlineVars, serviceVars, walkVars, propagateVars, subtypeVars>>
    \/ DeleteFinish /\ UNCHANGED <<affVars, sliceVars, inlineVars, serviceVars, walkVars, propagateVars, subtypeVars>>
SpecDelete == InitDelete /\ [][NextDelete]_vars

\* inline applied to a drawn caller, point, callee and target point
InitInline == InlineInit /\ AffIdle /\ SliceIdle /\ DeleteIdle /\ ServiceIdle /\ WalkIdle /\ PropagateIdle /\ SubtypeIdle
NextInline ==
    \/ InlineVersion /\ UNCHANGED <<affVars, sliceVars, deleteVars, serviceVars, walkVars, propagateVars, subtypeVars>>
    \/ InlineNoCall /\ UNCHANGED <<affVars, sliceVars, deleteVars, serviceVars, walkVars, propagateVars, subtypeVars>>
    \/ InlineNoFunction /\ UNCHANGED <<affVars, sliceVars, deleteVars, serviceVars, walkVars, propagateVars, subtypeVars>>
    \/ InlineLocate /\ UNCHANGED <<affVars, sliceVars, deleteVars, serviceVars, walkVars, propagateVars, subtypeVars>>
    \/ InlinePair /\ UNCHANGED <<affVars, sliceVars, deleteVars, serviceVars, walkVars, propagateVars, subtypeVars>>
    \/ InlineEmit /\ UNCHANGED <<affVars, sliceVars, deleteVars, serviceVars, walkVars, propagateVars, subtypeVars>>
    \/ InlineCallsite /\ UNCHANGED <<affVars, sliceVars, deleteVars, serviceVars, walkVars, propagateVars, subtypeVars>>
SpecInline == InitInline /\ [][NextInline]_vars

\* the part of slice and of inline that can return an error: the lookups
\* at the points given, and the pairing of arguments with parameters
InitLookup ==
    \/ SliceInit /\ AffIdle /\ DeleteIdle /\ InlineIdle /\ ServiceIdle /\ WalkIdle /\ PropagateIdle /\ SubtypeIdle
    \/ InlineInit /\ AffIdle /\ SliceIdle /\ DeleteIdle /\ ServiceIdle /\ WalkIdle /\ PropagateIdle /\ SubtypeIdle
NextLookup ==
    \/ SliceVersion /\ UNCHANGED <<affVars, deleteVars, inlineVars, serviceVars, walkVars, propagateVars, subtypeVars>>
    \/ SliceNoName /\ UNCHANGED <<affVars, deleteVars, inlineVars, serviceVars, walkVars, propagateVars, subtypeVars>>
    \/ SliceLocate /\ UNCHANGED <<affVars, deleteVars, inlineVars, serviceVars, walkVars, propagateVars, subtypeVars>>
    \/ InlineVersion /\ UNCHANGED <<affVars, sliceVars, deleteVars, serviceVars, walkVars, propagateVars, subtypeVars>>
    \/ InlineNoCall /\ UNCHANGED <<affVars, sliceVars, deleteVars, serviceVars, walkVars, propagateVars, subtypeVars>>
    \/ InlineNoFunction /\ UNCHANGED <<affVars, sliceVars, deleteVars, serviceVars, walkVars, propagateVars, subtypeVars>>
    \/ InlineLocate /\ UNCHANGED <<affVars, sliceVars, deleteVars, serviceVars, walkVars, propagateVars, subtypeVars>>
    \/ InlinePair /\ UNCHANGED <<affVars, sliceVars, deleteVars, serviceVars, walkVars, propagateVars, subtypeVars>>
SpecLookup == InitLookup /\ [][NextLookup]_vars

\* a request handled by the service
InitService == ServiceInit /\ AffIdle /\ SliceIdle /\ DeleteIdle /\ InlineIdle /\ WalkIdle /\ PropagateIdle /\ SubtypeIdle
NextService ==
    \/ ServiceSource /\ UNCHANGED <<affVars, sliceVars, deleteVars, inlineVars, walkVars, propagateVars, subtypeVars>>
    \/ ServiceLanguage /\ UNCHANGED <<affVars, sliceVars, deleteVars, inlineVars, walkVars, propagateVars, subtypeVars>>
    \/ ServiceConfig /\ UNCHANGED <<affVars, sliceVars, deleteVars, inlineVars, walkVars, propagateVars, subtypeVars>>
    \/ ServiceEngine /\ UNCHANGED <<affVars, sliceVars, deleteVars, inlineVars, walkVars, propagateVars, subtypeVars>>
SpecService == InitService /\ [][NextService]_vars

\* a walk of a drawn subtree, by the iterator and by traverse_with_depth
InitWalk == WalkInit /\ AffIdle /\ SliceIdle /\ DeleteIdle /\ InlineIdle /\ ServiceIdle /\ PropagateIdle /\ SubtypeIdle
NextWalk ==
    \/ WalkIterNext /\ UNCHANGED <<affVars, sliceVars, deleteVars, inlineVars, serviceVars, propagateVars, subtypeVars>>
    \/ WalkRound /\ UNCHANGED <<affVars, sliceVars, deleteVars, inlineVars, serviceVars, propagateVars, subtypeVars>>
SpecWalk == InitWalk /\ [][NextWalk]_vars

\* the same walk with its loops run on: a for loop calls next() again, and
\* a loop of traverse_with_depth starts its next round
SpecWalkFair == InitWalk /\ [][NextWalk]_vars /\ WF_vars(NextWalk)

\* the loop of the library's propagate_targets; the loop runs on: a pass
\* is followed by its exit test, and the test by the next pass or the return
InitPropagate ==
    /\ PropagateInit /\ AffIdle /\ SliceIdle /\ DeleteIdle /\ InlineIdle
    /\ ServiceIdle /\ WalkIdle /\ SubtypeIdle
NextPropagate ==
    \/ LibraryPass /\ UNCHANGED <<affVars, sliceVars, deleteVars, inlineVars, serviceVars, walkVars, subtypeVars>>
    \/ LibraryTest /\ UNCHANGED <<affVars, sliceVars, deleteVars, inlineVars, serviceVars, walkVars, subtypeVars>>
SpecPropagateFair == InitPropagate /\ [][NextPropagate]_vars /\ WF_vars(NextPropagate)

\* the loop of the binary's propagate_targets, run on in the same way
InitBinary ==
    /\ PropagateInit /\ pg_direction = "Forward"
    /\ AffIdle /\ SliceIdle /\ DeleteIdle /\ InlineIdle /\ ServiceIdle /\ WalkIdle
    /\ SubtypeIdle
NextBinary ==
    \/ BinaryPass /\ UNCHANGED <<affVars, sliceVars, deleteVars, inlineVars, serviceVars, walkVars, subtypeVars>>
    \/ BinaryTest /\ UNCHANGED <<affVars, sliceVars, deleteVars, inlineVars, serviceVars, walkVars, subtypeVars>>
SpecBinaryFair == InitBinary /\ [][NextBinary]_vars /\ WF_vars(NextBinary)

\* a table built from a drawn descriptor and asked about a drawn list of
\* type names and a drawn kind
InitSubtype ==
    /\ SubtypeInit /\ AffIdle /\ SliceIdle /\ DeleteIdle /\ InlineIdle
    /\ ServiceIdle /\ WalkIdle /\ PropagateIdle
NextSubtype ==
    \/ SubtypeExpand /\ UNCHANGED <<affVars, sliceVars, deleteVars, inlineVars, serviceVars, walkVars, propagateVars>>
    \/ SubtypeContains /\ UNCHANGED <<affVars, sliceVars, deleteVars, inlineVars, serviceVars, walkVars, propagateVars>>
SpecSubtype == InitSubtype /\ [][NextSubtype]_vars

\* ------------------------------------------------------------------------
\* Claims about the slicer
\* ------------------------------------------------------------------------

SliceOk == sl_pc = "done" /\ sl_result = <<"Ok">>

\* n lies in the subtree rooted at r
InSubtree(T, r, n) == n = r \/ r \in Ancestors(T, n)

\* n is kept: it lies in no node emitted for deletion
Retained(n) ==
    \A i \in 1..Len(sl_delete_nodes) : ~InSubtree(sl_tree, sl_delete_nodes[i], n)

\* the range holds the point (start inclusive, end exclusive)
RangeHoldsPoint(r, p) == PointLte(r.start_point, p) /\ PointLt(p, r.end_point)

\* the range and the node share a byte
RangeMeetsNode(r, n) ==
    r.start_byte < sl_tree[n].end_byte /\ sl_tree[n].start_byte < r.end_byte

\* the components of the target name
TargetComponents == name_components(sl_src, sl_tree, sl_target)

\* the statement nodes of the enclosing function
StatementNodes ==
    {n \in Subtree(sl_tree, sl_func) : contains_subtype(statement_types, Kind(sl_tree, n))}

\* the propagating nodes of the enclosing function that have both fields
PropagatingNodes ==
    {n \in Subtree(sl_tree, sl_func) :
        /\ PropagatingEntry(Kind(sl_tree, n)) # 0
        /\ LET e == propagating_types[PropagatingEntry(Kind(sl_tree, n))]
           IN  /\ ChildByFieldName(sl_tree, n, e.defs) # 0
               /\ ChildByFieldName(sl_tree, n, e.refs) # 0}

DefsNames(n) ==
    Elems(referenced_names(sl_src, sl_tree,
        ChildByFieldName(sl_tree, n, propagating_types[PropagatingEntry(Kind(sl_tree, n))].defs)))

RefsNames(n) ==
    Elems(referenced_names(sl_src, sl_tree,
        ChildByFieldName(sl_tree, n, propagating_types[PropagatingEntry(Kind(sl_tree, n))].refs)))

\* some name of the target set affects some name of the set
Affected(names) == \E t \in sl_names : \E m \in names : affects(t, m)

\* C1: when slice succeeds, no returned range holds the target point, the
\* target name node and its ancestors are not emitted for deletion, and no
\* returned range covers a byte of the target name.
C1_TargetNotInRanges ==
    SliceOk =>
        /\ \A i \in 1..Len(sl_ranges) : ~RangeHoldsPoint(sl_ranges[i], sl_point)
        /\ \A i \in 1..Len(sl_delete_nodes) :
              sl_delete_nodes[i] \notin ({sl_target} \cup Ancestors(sl_tree, sl_target))
        /\ \A i \in 1..Len(sl_ranges) : ~RangeMeetsNode(sl_ranges[i], sl_target)

\* a successful slice with a range before the target and a range after it,
\* the target inside a nested statement
C1_Witness ==
    /\ SliceOk
    /\ \E i \in 1..Len(sl_ranges) : sl_ranges[i].end_byte <= sl_tree[sl_target].start_byte
    /\ \E i \in 1..Len(sl_ranges) : sl_tree[sl_target].end_byte <= sl_ranges[i].start_byte
    /\ \E a \in Ancestors(sl_tree, sl_target) : Kind(sl_tree, a) = "if_statement"

\* C2: when slice succeeds, each returned range lies within the source,
\* and the ranges are in ascending order of start byte and do not overlap
\* (in bytes and in points).
C2_RangesSortedDisjoint ==
    SliceOk =>
        /\ \A i \in 1..Len(sl_ranges) :
              /\ 0 <= sl_ranges[i].start_byte
              /\ sl_ranges[i].start_byte <= sl_ranges[i].end_byte
              /\ sl_ranges[i].end_byte <= Len(sl_src)
        /\ \A i \in 1..Len(sl_ranges) : \A j \in 1..Len(sl_ranges) :
              i < j =>
                 /\ sl_ranges[i].start_byte < sl_ranges[j].start_byte
                 /\ sl_ranges[i].end_byte <= sl_ranges[j].start_byte
                 /\ PointLte(sl_ranges[i].end_point, sl_ranges[j].start_point)

\* a successful slice with two ranges, one of them coalesced from two nodes
C2_Witness ==
    /\ SliceOk
    /\ Len(sl_ranges) >= 2
    /\ Len(sl_delete_nodes) > Len(sl_ranges)

\* C5 as stated: every propagating statement that is kept has all the names
\* of its refs side (Backward) or of its defs side (Forward) in the final
\* target set.
C5_KeptStatementNamesInTargets ==
    SliceOk =>
        \A n \in PropagatingNodes :
            Retained(n) =>
                IF sl_direction = "Backward" THEN RefsNames(n) \subseteq sl_names
                ELSE DefsNames(n) \subseteq sl_names

\* C5 amended: every propagating statement that is kept and whose defs side
\* (Backward) or refs side (Forward) has a name that a final target affects
\* has all the names of the other side in the final target set.
C5_KeptAffectedStatementNamesInTargets ==
    SliceOk =>
        \A n \in PropagatingNodes :
            Retained(n) =>
                IF sl_direction = "Backward"
                THEN Affected(DefsNames(n)) => RefsNames(n) \subseteq sl_names
                ELSE Affected(RefsNames(n)) => DefsNames(n) \subseteq sl_names

\* a Backward slice that keeps an assignment to a target and has pulled the
\* names of its right-hand side into the target set
C5_Witness ==
    /\ SliceOk
    /\ sl_direction = "Backward"
    /\ \E n \in PropagatingNodes :
          /\ Retained(n)
          /\ Affected(DefsNames(n))
          /\ RefsNames(n) # {}
          /\ ~(RefsNames(n) \subseteq {TargetComponents})

\* the only name of the set is a strict extension of the target
IsExtensionOnly(names) ==
    \E m \in names :
        /\ names = {m}
        /\ Len(m) > Len(TargetComponents)
        /\ SubSeq(m, 1, Len(TargetComponents)) = TargetComponents

\* the statements whose only referenced name is a strict extension of the target
ExtensionOnlyStatements ==
    {n \in StatementNodes : IsExtensionOnly(Elems(referenced_names(sl_src, sl_tree, n)))}

\* C6 as stated: a statement that references the target's name is kept, and
\* a statement whose only reference is a strict extension of the target is
\* kept exactly when that extension is in the target set.
C6_ExtensionKeptIffInTargets ==
    SliceOk =>
        /\ \A n \in StatementNodes :
              TargetComponents \in Elems(referenced_names(sl_src, sl_tree, n)) => Retained(n)
        /\ \A n \in ExtensionOnlyStatements :
              Retained(n) <=> Elems(referenced_names(sl_src, sl_tree, n)) \subseteq sl_names

\* C6 amended: a statement that references the target's name is kept, and
\* so is a statement whose only reference is a strict extension of the
\* target, whether or not the extension is in the target set; that is, no
\* statement that is not kept is of either sort.
C6_EqualAndExtensionKept ==
    SliceOk =>
        \A n \in StatementNodes :
            ~Retained(n) =>
                LET names == Elems(referenced_names(sl_src, sl_tree, n))
                IN  TargetComponents \notin names /\ ~IsExtensionOnly(names)

\* a successful slice that keeps a statement whose only reference is a
\* strict extension of the target that is not in the target set
C6_Witness ==
    /\ SliceOk
    /\ \E n \in ExtensionOnlyStatements :
          /\ Retained(n)
          /\ ~(Elems(referenced_names(sl_src, sl_tree, n)) \subseteq sl_names)

\* ------------------------------------------------------------------------
\* Claims about delete_ranges
\* ------------------------------------------------------------------------

\* the character at a point of a text given by its lines; "none" where the
\* point is outside the text
CharAt(lines, p) ==
    IF p[1] + 1 \in 1..Len(lines) /\ p[2] + 1 \in 1..Len(lines[p[1] + 1])
    THEN lines[p[1] + 1][p[2] + 1]
    ELSE "none"

\* byte j (counted from 1) of the source lies in one of the ranges
ByteInRanges(j) ==
    \E k \in 1..Len(dr_ranges) :
        dr_ranges[k].start_byte < j /\ j <= dr_ranges[k].end_byte

\* a range touches row r (counted from 0) of the source
RowTouched(r) ==
    \E k \in 1..Len(dr_ranges) :
        dr_ranges[k].start_point[1] <= r /\ r <= dr_ranges[k].end_point[1]

\* the byte is a letter: a character of one byte that is no whitespace
IsLetter(b) == b \notin HighBytes /\ ~IsWhitespace(<<b>>)

\* the letters of the source outside every range, in order
KeptLetters ==
    LET idx == SelectSeq([j \in 1..Len(dr_src) |-> j],
                         LAMBDA j : IsLetter(dr_src[j]) /\ ~ByteInRanges(j))
    IN  [n \in 1..Len(idx) |-> dr_src[idx[n]]]

\* C3: the point delete_ranges returns designates in the output the token
\* the anchor designated in the source, whatever prefixes and suffixes the
\* ranges above the anchor leave on their lines.
C3_AnchorDesignatesSameToken ==
    dr_pc = "done" =>
        CharAt(SplitLines(dr_out), dr_target_point) = CharAt(SplitLines(dr_src), dr_anchor)

\* C4: the output is the source with the ranges removed: no letter inside
\* a range is in the output, the letters outside the ranges are in the
\* output exactly once and in order, and every source line no range
\* touches is an output line exactly once.
C4_OutputIsSourceWithoutRanges ==
    dr_pc = "done" =>
        /\ \A j \in 1..Len(dr_src) :
              (ByteInRanges(j) /\ IsLetter(dr_src[j])) => ~Contains(dr_out, dr_src[j])
        /\ SelectSeq(dr_out, IsLetter) = KeptLetters
        /\ \A r \in 1..Len(SplitLines(dr_src)) :
              ~RowTouched(r - 1) =>
                  Cardinality({q \in 1..Len(SplitLines(dr_out)) :
                                  SplitLines(dr_out)[q] = SplitLines(dr_src)[r]}) = 1

\* ------------------------------------------------------------------------
\* Claims about inline
\* ------------------------------------------------------------------------

InlineOk == inl_pc = "done" /\ inl_result = <<"Ok">>

\* s ends with p
EndsWith(s, p) == Len(p) <= Len(s) /\ SubSeq(s, Len(s) - Len(p) + 1, Len(s)) = p

\* a text without its whitespace
StripWhitespace(s) == Concat(SelectSeq(Chars(s), LAMBDA c : ~IsWhitespace(c)))

\* the caller's lines above the callsite line, joined
CallerAbove ==
    JoinLines(SubSeq(SplitLines(inl_src), 1, StartPoint(inl_tree, inl_callsite)[1]))

\* the callsite line up to the callsite column
CallerLinePrefix ==
    SubSeq(SplitLines(inl_src)[StartPoint(inl_tree, inl_callsite)[1] + 1],
           1, StartPoint(inl_tree, inl_callsite)[2])

\* the caller from the callsite's end byte
CallerRest == SubSeq(inl_src, inl_tree[inl_callsite].end_byte + 1, Len(inl_src))

\* the arguments of the call at the callsite itself, in order
OwnArgs ==
    SelectSeq(Children(inl_tree, ChildByFieldName(inl_tree, inl_callsite, "arguments")),
              LAMBDA c : Kind(inl_tree, c) \in ExpressionKinds)

\* the text of the i-th parameter's name, and of its type
ParamText(i) ==
    NodeText(inl_target_content, inl_target_tree, inl_function_params[i].param_name)
ParamTypeText(i) ==
    NodeText(inl_target_content, inl_target_tree, inl_function_params[i].param_type)

\* the function definition at the target point and its body, as the
\* callee's tree has them; 0 where there is none
FunctionAtTarget == FunctionDefinitionAt(inl_target_tree, inl_target_point)
BodyAtTarget == ChildByFieldName(inl_target_tree, FunctionAtTarget, "body")

\* the callee's body has no statement
EmptyBody ==
    /\ FunctionAtTarget # 0
    /\ BodyAtTarget # 0
    /\ \A c \in Elems(Children(inl_target_tree, BodyAtTarget)) : ~inl_target_tree[c].named

\* inline is asked to inline a call to a function with an empty body: the
\* parser accepts the language, a call is at the point and a function
\* definition with an empty body at the target point
CallToEmptyBody ==
    /\ set_language(inl_language) = "Ok"
    /\ CallsiteAt(inl_tree, inl_point) # 0
    /\ EmptyBody

\* the line of a temporary as the C configuration writes it
TempText(temp) == temp.typ \o <<" ">> \o temp.name \o <<" ", "=", " ">> \o temp.value \o <<";">>

\* C8: a successful inline keeps the caller before the callsite and from
\* the callsite's end byte: the output starts with the caller's lines above
\* the callsite line, the callsite line's text before the callsite column
\* comes right before the replacement of the call, and the output ends
\* with the caller from the callsite's end byte.
C8_CallerFramePreserved ==
    InlineOk =>
        /\ StartsWith(inl_out, CallerAbove \o <<"\n">>)
        /\ EndsWith(inl_out, CallerRest)
        /\ inl_out = inl_new_src \o CallerLinePrefix \o inl_callsite_text \o CallerRest
        /\ StartsWith(inl_new_src, CallerAbove \o <<"\n">>)

\* a successful inline of a call on an indented line below the first, with
\* a temporary, a replacement for the call and text after the call
C8_Witness ==
    /\ InlineOk
    /\ StartPoint(inl_tree, inl_callsite)[1] >= 1
    /\ Len(CallerLinePrefix) > 2
    /\ inl_callsite_text # <<>>
    /\ inl_temps # <<>>
    /\ Len(CallerRest) > 1

\* C9: inlining a call to a function with an empty body returns the
\* caller unchanged up to whitespace.
C9_EmptyBodyLeavesCallerUnchanged ==
    (inl_pc = "done" /\ CallToEmptyBody) =>
        /\ InlineOk
        /\ StripWhitespace(inl_out) = StripWhitespace(inl_src)

\* inline has panicked on a call without arguments to a function with an
\* empty body and no parameter, caller and callee in one text
C9_EmptyCalleeWithoutParameters ==
    /\ inl_pc = "done"
    /\ CallToEmptyBody
    /\ inl_target_content = inl_src
    /\ OwnArgs = <<>>
    /\ inl_function_params = <<>>
    /\ inl_result = <<"panic">>

\* what the code does where it returns from such a call: the output is, up
\* to whitespace, the caller with the call removed and with the lines of
\* the temporaries the pairing loop made (inl_temps, which C10 shows are
\* not those of the call's own arguments) between the lines above the
\* callsite line and that line
C9_EmptyBodyRemovesCall ==
    (InlineOk /\ EmptyBody) =>
        StripWhitespace(inl_out) =
            StripWhitespace(CallerAbove)
            \o StripWhitespace(Concat([i \in 1..Len(inl_temps) |-> TempText(inl_temps[i])]))
            \o StripWhitespace(CallerLinePrefix)
            \o StripWhitespace(CallerRest)

\* a successful inline of a call to a function with an empty body, the call
\* below the first line and one of its arguments put into a temporary
C9_EmptyBodyInlined ==
    /\ InlineOk
    /\ EmptyBody
    /\ StartPoint(inl_tree, inl_callsite)[1] >= 1
    /\ inl_temps # <<>>
    /\ Len(OwnArgs) = 2

\* the temporaries that positional pairing of the call's own arguments with
\* the parameters gives, in argument order
RECURSIVE PositionalTemps(_)
PositionalTemps(n) ==
    IF n = 0 THEN <<>>
    ELSE PositionalTemps(n - 1)
         \o (IF Kind(inl_tree, OwnArgs[n]) \in (constant_types \cup name_types)
             THEN <<>>
             ELSE <<[name |-> InlineName(ParamText(n)),
                     value |-> NodeText(inl_src, inl_tree, OwnArgs[n]),
                     typ |-> ParamTypeText(n)]>>)

\* C10: the arguments of the call are paired with the parameters by
\* position: a parameter whose argument is a constant or a name is mapped
\* to the argument's text and gets no temporary; any other is mapped to
\* inline_<param> and gets one temporary with the argument's text as value
\* and the parameter's type, written before the inlined body in argument
\* order at the callsite line's indentation.
C10_ArgumentsPairedByPosition ==
    InlineOk =>
        LET n == Min(Len(OwnArgs), Len(inl_function_params))
            ws == LeadingWhitespace(SplitLines(inl_src)[StartPoint(inl_tree, inl_callsite)[1] + 1])
        IN  /\ \A i \in 1..n :
                  RenameOf(inl_rename_map, <<ParamText(i)>>) =
                      IF Kind(inl_tree, OwnArgs[i]) \in (constant_types \cup name_types)
                      THEN <<NodeText(inl_src, inl_tree, OwnArgs[i])>>
                      ELSE <<InlineName(ParamText(i))>>
            /\ inl_temps = PositionalTemps(n)
            /\ StartsWith(inl_new_src,
                   CallerAbove \o <<"\n">>
                   \o Concat([i \in 1..Len(inl_temps) |->
                                 ws \o TempText(inl_temps[i]) \o <<"\n">>]))

\* ------------------------------------------------------------------------
\* Claims about the returns of the callee
\* ------------------------------------------------------------------------

\* the callee's function definition
CalleeDefinition == Parent(inl_target_tree, inl_function_params[1].function_body)

\* the return statements of the callee that return a value
CalleeReturns ==
    {n \in Subtree(inl_target_tree, CalleeDefinition) :
        /\ Kind(inl_target_tree, n) = "return_statement"
        /\ \E i \in 1..Len(Children(inl_target_tree, n)) :
              Kind(inl_target_tree, Children(inl_target_tree, n)[i]) \in ExpressionKinds}

\* the value a return statement returns
ReturnValueOf(n) ==
    LET cs == Children(inl_target_tree, n)
    IN  cs[CHOOSE i \in 1..Len(cs) : Kind(inl_target_tree, cs[i]) \in ExpressionKinds]

\* caller and callee are one text
SameText == inl_target_content = inl_src

RECURSIVE ParameterMapOf(_)
\* the parameters of the first k pairs, each by its name as the callee
\* writes it, with the text the pairing gives it: the argument's text for a
\* constant or a name, inline_<param> for any other argument
ParameterMapOf(k) ==
    IF k = 0 THEN {}
    ELSE RenameInsert(ParameterMapOf(k - 1), <<ParamText(k)>>,
                      IF Kind(inl_tree, inl_call_args[k]) \in (constant_types \cup name_types)
                      THEN NodeText(inl_src, inl_tree, inl_call_args[k])
                      ELSE InlineName(ParamText(k)))

\* the map of the parameters paired
ParameterMap == ParameterMapOf(Min(Len(inl_call_args), Len(inl_function_params)))

RECURSIVE Renamed(_)
\* the text of a node of the callee with every name that is a parameter
\* paired replaced by the parameter's text in the map: a name is replaced
\* as a whole, any other node is its children renamed with the text
\* between them kept
Renamed(n) ==
    LET T == inl_target_tree
        cs == Children(T, n)
    IN  IF Kind(T, n) \in name_types
        THEN IF RenameOf(ParameterMap, name_components(inl_target_content, T, n)) # <<>>
             THEN RenameOf(ParameterMap, name_components(inl_target_content, T, n))[1]
             ELSE NodeText(inl_target_content, T, n)
        ELSE IF cs = <<>> THEN NodeText(inl_target_content, T, n)
        ELSE Concat([i \in 1..Len(cs) |->
                        Slice(inl_target_content,
                              IF i = 1 THEN T[n].start_byte ELSE T[cs[i - 1]].end_byte,
                              T[cs[i]].start_byte)
                        \o Renamed(cs[i])])
             \o Slice(inl_target_content, T[cs[Len(cs)]].end_byte, T[n].end_byte)

\* the number of places where p occurs in s
Occurrences(s, p) ==
    Cardinality({i \in 1..(Len(s) - Len(p) + 1) : SubSeq(s, i, i + Len(p) - 1) = p})

\* the inlined body in the output: what follows the lines above the
\* callsite line and the lines of the temporaries, up to the callsite line
InlinedBody ==
    LET ws == LeadingWhitespace(SplitLines(inl_src)[StartPoint(inl_tree, inl_callsite)[1] + 1])
        head == CallerAbove \o <<"\n">>
                \o Concat([i \in 1..Len(inl_temps) |->
                              ws \o TempText(inl_temps[i]) \o <<"\n">>])
    IN  SubSeq(inl_new_src, Len(head) + 1, Len(inl_new_src))

\* the call and the returns in the output: with exactly one return, the
\* return statement is absent from the inlined body and the call is
\* replaced by the return value with the parameters renamed; in any other
\* case the call is replaced by nothing and every return statement stays
\* in the inlined body
ReturnsInlined ==
    /\ inl_out = inl_new_src \o CallerLinePrefix \o inl_callsite_text \o CallerRest
    /\ IF Cardinality(CalleeReturns) = 1
       THEN /\ inl_callsite_text =
                   Renamed(ReturnValueOf(CHOOSE n \in CalleeReturns : TRUE))
            /\ Occurrences(InlinedBody, <<"r", "e", "t", "u", "r", "n">>) = 0
       ELSE /\ inl_callsite_text = <<>>
            /\ Occurrences(InlinedBody, <<"r", "e", "t", "u", "r", "n">>)
                   = Cardinality(CalleeReturns)
            /\ \A n \in CalleeReturns :
                  Occurrences(StripWhitespace(InlinedBody),
                              StripWhitespace(Renamed(n))) >= 1

\* C11: with exactly one return, the return statement is absent from the
\* inlined body and the call is replaced by the return value with the
\* parameters renamed; with no return the call is replaced by nothing;
\* with more than one return the call is replaced by nothing and every
\* return statement stays in the inlined body.
C11_CallReplacedByTheOnlyReturn == InlineOk => ReturnsInlined

\* what holds of the code: the same where caller and callee are one text,
\* the only case in which the names of the callee are read in their own text
C11_SameTextCallReplaced == (InlineOk /\ SameText) => ReturnsInlined

\* which of the two is replaced where the texts differ: the count of the
\* returns decides as stated, the return value is written as the walk of
\* rewrite_names leaves it
C11_ReturnCountDecides ==
    InlineOk =>
        /\ inl_out = inl_new_src \o CallerLinePrefix \o inl_callsite_text \o CallerRest
        /\ Cardinality(CalleeReturns) # 1 => inl_callsite_text = <<>>
        /\ Cardinality(CalleeReturns) = 1 =>
              Occurrences(InlinedBody, <<"r", "e", "t", "u", "r", "n">>) = 0

\* a successful inline across two texts of a callee with one return whose
\* value names a parameter that has a mapped text
C11_ParameterLeftInReturnValue ==
    /\ InlineOk
    /\ ~SameText
    /\ Cardinality(CalleeReturns) = 1
    /\ ParameterMap # {}
    /\ inl_callsite_text # Renamed(ReturnValueOf(CHOOSE n \in CalleeReturns : TRUE))

\* a successful inline of a callee with one return whose value names two
\* parameters, both renamed in the replacement of the call
C11_Witness ==
    /\ InlineOk
    /\ SameText
    /\ Cardinality(CalleeReturns) = 1
    /\ Len(inl_function_params) = 2
    /\ inl_callsite_text # <<>>
    /\ Occurrences(inl_callsite_text, <<"a">>) = 0
    /\ Occurrences(inl_callsite_text, <<"b">>) = 0

\* a successful inline of a callee with two returns
C11_WitnessTwoReturns ==
    /\ InlineOk
    /\ Cardinality(CalleeReturns) = 2
    /\ inl_temps # <<>>

\* ------------------------------------------------------------------------
\* Claims about the errors of slice and inline
\* ------------------------------------------------------------------------

\* a descent from the root towards the point passes the node n: the
\* descent passes the root, and of each node passed its first child that
\* ends at or after the point
OnDescentPath(T, n, point) ==
    \A m \in (Ancestors(T, n) \cup {n}) \ {1} :
        /\ PointLte(point, EndPoint(T, m))
        /\ \A j \in 1..(ChildIndex(T, m) - 1) :
              ~PointLte(point, EndPoint(T, Children(T, Parent(T, m))[j]))

\* a node of one of the kinds is found at the point
FoundAt(T, kinds, point) ==
    \E n \in Nodes(T) : Kind(T, n) \in kinds /\ OnDescentPath(T, n, point)

\* the parser has accepted the language, so that the lookups are made
SliceParses == set_language(sl_language) = "Ok"
InlineParses == set_language(inl_language) = "Ok"

\* slice and inline have returned the error of the lookup that failed,
\* or the error of the parser where it does not accept the language
LookupFailureReturned ==
    /\ (SliceParses /\ sl_pc \notin {"idle", "slice"}
        /\ ~FoundAt(sl_tree, name_types, sl_point)) =>
          /\ sl_pc = "done"
          /\ sl_result = <<"NoNameAtPointError", sl_point>>
          /\ sl_ranges = <<>>
    /\ (InlineParses /\ inl_pc \notin {"idle", "inline"}
        /\ ~FoundAt(inl_tree, function_call_types, inl_point)) =>
          /\ inl_pc = "done"
          /\ inl_result = <<"NoCallAtPointError", inl_point>>
          /\ inl_out = <<>>
    /\ (InlineParses /\ inl_pc \notin {"idle", "inline"}
        /\ FoundAt(inl_tree, function_call_types, inl_point)
        /\ ~FoundAt(inl_target_tree, slice_scope_types, inl_target_point)) =>
          /\ inl_pc = "done"
          /\ inl_result = <<"NoNameAtPointError", inl_target_point>>
          /\ inl_out = <<>>
    /\ (~SliceParses /\ sl_pc \notin {"idle", "slice"}) =>
          /\ sl_pc = "done"
          /\ sl_result = <<"TreeSitterVersionError">>
          /\ sl_ranges = <<>>
    /\ (~InlineParses /\ inl_pc \notin {"idle", "inline"}) =>
          /\ inl_pc = "done"
          /\ inl_result = <<"TreeSitterVersionError">>
          /\ inl_out = <<>>

\* C12: slice returns NoNameAtPoint(p) and no ranges when its lookup finds
\* no name at the target point, inline returns NoCallAtPoint(p) when its
\* lookup finds no call at the call point and NoNameAtPoint(p) when it
\* finds no function definition at the callee's point; the lookups are
\* made where the parser has accepted the language, and where it has not
\* both return TreeSitterVersionError before any lookup; the source text
\* of the engine is never changed.
C12_LookupErrorsReturned ==
    /\ []LookupFailureReturned
    /\ [][sl_src' = sl_src /\ inl_src' = inl_src]_vars

\* slice has returned NoNameAtPoint for a point inside the function where
\* the descent ends on a token that is no name
C12_Witness ==
    /\ SliceParses
    /\ sl_pc = "done"
    /\ sl_result = <<"NoNameAtPointError", sl_point>>
    /\ sl_point[1] >= 1
    /\ sl_point[2] >= 1
    /\ sl_src # <<>>

\* inline has returned NoNameAtPoint for a target point below the callee
C12_WitnessNoFunction ==
    /\ InlineParses
    /\ inl_pc = "done"
    /\ inl_result = <<"NoNameAtPointError", inl_target_point>>
    /\ FoundAt(inl_tree, function_call_types, inl_point)

\* slice has returned the parser's error for a point where no name is
C12_WitnessVersion ==
    /\ ~SliceParses
    /\ sl_pc = "done"
    /\ ~FoundAt(sl_tree, name_types, sl_point)
    /\ sl_result = <<"TreeSitterVersionError">>

\* ------------------------------------------------------------------------
\* Claims about the service
\* ------------------------------------------------------------------------

\* the request names or lets guess a language that has a configuration
LanguageResolved == IF svc_language = "" THEN svc_guess = "C" ELSE svc_language = "C"

\* the request carries everything the handler unwraps
RequestComplete == svc_source /\ svc_point /\ (svc_kind = "inline" => svc_target_point)

\* the engine's operation, where the handler calls it, returns: it ends
\* with Ok or with one of its errors
EngineReturns == LanguageResolved => svc_engine # "panic"

\* C13: a request that fails with UnknownLanguage, ParserVersionMismatch,
\* NoNameAtPoint or NoCallAtPoint is answered with that error as its
\* result; the handler does not panic.
C13_FailuresAnswered ==
    (svc_pc = "done" /\ RequestComplete /\ EngineReturns) =>
        /\ svc_response[1] # "panic"
        /\ ~LanguageResolved => svc_response = <<"Err", "UnknownLanguage">>
        /\ (LanguageResolved /\ svc_engine # "Ok") => svc_response = <<"Err", svc_engine>>

\* what the handlers do: a complete request is answered when nothing
\* fails, and every failure ends the handler in a panic
ServiceFailuresPanic ==
    (svc_pc = "done" /\ RequestComplete) =>
        svc_response = IF ~LanguageResolved THEN <<"panic", "UnknownLanguage">>
                       ELSE IF svc_engine # "Ok" THEN <<"panic", svc_engine>>
                       ELSE <<"Ok">>

\* ------------------------------------------------------------------------
\* Claims about DepthFirstWalk
\* ------------------------------------------------------------------------

RECURSIVE PreorderOf(_, _)
\* the nodes of the subtree rooted at n: n, then the nodes of each child's
\* subtree, the children from left to right
PreorderOf(T, n) ==
    <<n>> \o Concat([i \in 1..Len(Children(T, n)) |-> PreorderOf(T, Children(T, n)[i])])

\* s is a prefix of t
IsPrefixOf(s, t) == Len(s) <= Len(t) /\ SubSeq(t, 1, Len(s)) = s

\* C14: the iterator of depth_first(n) yields every node of the subtree
\* rooted at n exactly once, a node before its children and the children
\* from left to right, and then None.
C14_IteratorYieldsPreorder ==
    /\ wk_pc = "iter" => IsPrefixOf(wk_yield, PreorderOf(wk_tree, wk_root))
    /\ wk_pc \in {"walk", "done"} => wk_yield = Append(PreorderOf(wk_tree, wk_root), 0)

\* the for loop has ended over a subtree of three nodes or more whose
\* root has a next sibling in the tree
C14_Witness ==
    /\ wk_pc = "walk"
    /\ NextSibling(wk_tree, wk_root) # 0
    /\ Len(wk_yield) >= 4
    /\ wk_yield[Len(wk_yield)] = 0

\* the for loop has ended over a subtree of one node
C14_WitnessSingleNode ==
    /\ wk_pc = "walk"
    /\ Children(wk_tree, wk_root) = <<>>
    /\ wk_yield = <<wk_root, 0>>

\* the nodes cb has been called on, in the order of the calls
Visited == 
    LET seen == SelectSeq(wk_walk.events, LAMBDA e : e.ev = "visit")
    IN  [i \in 1..Len(seen) |-> seen[i].from]

\* the nodes of the walk's subtree that are under a node on which cb
\* answers false
Pruned ==
    {n \in Subtree(wk_tree, wk_root) :
        \E a \in Ancestors(wk_tree, n) \cap Subtree(wk_tree, wk_root) : a \in wk_stop}

\* C15: traverse calls cb exactly once, in pre-order, on exactly the nodes
\* of the subtree that have no proper ancestor on which cb answered false;
\* with cb always true the nodes visited are those the iterator yields.
C15_TraverseVisitsUnprunedPreorder ==
    wk_pc = "done" =>
        /\ Visited = SelectSeq(PreorderOf(wk_tree, wk_root), LAMBDA n : n \notin Pruned)
        /\ wk_stop = {} => Append(Visited, 0) = wk_yield

\* a walk has returned that skipped the children of a node and went on
\* with the next sibling of that node's parent
C15_Witness ==
    /\ wk_pc = "done"
    /\ \E p \in wk_stop :
          /\ Children(wk_tree, p) # <<>>
          /\ p # wk_root
          /\ NextSibling(wk_tree, p) = 0
          /\ \E i \in 1..(Len(Visited) - 1) :
                Visited[i] = p /\ Visited[i + 1] = NextSibling(wk_tree, Parent(wk_tree, p))

\* every node a callback has been handed so far
Handed == UNION {{wk_walk.events[i].from, wk_walk.events[i].to} : i \in 1..Len(wk_walk.events)}

\* the iterator has yielded, and the callbacks have been handed, only
\* nodes of the subtree under the walk's root
WalkStaysInside ==
    /\ \A i \in 1..Len(wk_yield) : wk_yield[i] # 0 => wk_yield[i] \in Subtree(wk_tree, wk_root)
    /\ Handed \subseteq Subtree(wk_tree, wk_root)
    /\ wk_cur \in Subtree(wk_tree, wk_root) \cup {0}
    /\ wk_walk.cur \in Subtree(wk_tree, wk_root)

\* C16: on every tree and for every behaviour of cb the iterator comes to
\* its None and traverse_with_depth returns, and neither is ever at, yields
\* or hands to a callback a node outside the subtree under the walk's root.
C16_WalkTerminatesInsideSubtree ==
    /\ <>(wk_pc = "walk")
    /\ <>(wk_pc = "done")
    /\ []WalkStaysInside

\* both walks have ended on a root that has a parent and a next sibling in
\* the tree, and the traverse came back up to it from below
C16_Witness ==
    /\ wk_pc = "done"
    /\ Parent(wk_tree, wk_root) # 0
    /\ NextSibling(wk_tree, wk_root) # 0
    /\ Children(wk_tree, wk_root) # <<>>
    /\ wk_root \notin wk_stop
    /\ wk_walk.cur = wk_root

\* the calls traverse_with_depth has made so far
Calls == wk_walk.events

\* the visited nodes into which the walk descends: cb answered true on
\* them and they have children
Descended ==
    {p \in Subtree(wk_tree, wk_root) :
        p \notin Pruned /\ p \notin wk_stop /\ Children(wk_tree, p) # <<>>}

\* the number of on_descent calls less the number of on_ascent calls among
\* the first k calls
DepthAfter(k) ==
    Cardinality({i \in 1..k : Calls[i].ev = "descent"})
        - Cardinality({i \in 1..k : Calls[i].ev = "ascent"})

\* on_descent(p, first child of p) is called once for each node descended
\* into, and the next call is cb on that first child
DescentsBeforeFirstChild ==
    /\ \A i \in 1..Len(Calls) : Calls[i].ev = "descent" =>
          /\ Calls[i].from \in Descended
          /\ Calls[i].to = Children(wk_tree, Calls[i].from)[1]
          /\ i < Len(Calls)
          /\ Calls[i + 1] = [ev |-> "visit", from |-> Calls[i].to, to |-> Calls[i].to]
    /\ \A p \in Descended :
          Cardinality({i \in 1..Len(Calls) : Calls[i].ev = "descent" /\ Calls[i].from = p}) = 1

\* on_ascent(_, p) is called once for each node descended into, after cb
\* has been called on every visited descendant of p and before cb is called
\* on any other node that follows p
AscentsAfterDescendants ==
    \A p \in Descended :
        /\ Cardinality({j \in 1..Len(Calls) : Calls[j].ev = "ascent" /\ Calls[j].to = p}) = 1
        /\ \A j \in 1..Len(Calls) : Calls[j].ev = "ascent" /\ Calls[j].to = p =>
              \A i \in 1..Len(Calls) : Calls[i].ev = "visit" /\ Calls[i].from > p =>
                  (i < j <=> p \in Ancestors(wk_tree, Calls[i].from))

\* the first argument of on_ascent is the node cb was last called on
AscentFromLastVisited ==
    \A j \in 1..Len(Calls) : Calls[j].ev = "ascent" =>
        \E i \in 1..(j - 1) :
            /\ Calls[i].ev = "visit"
            /\ Calls[i].from = Calls[j].from
            /\ \A m \in (i + 1)..(j - 1) : Calls[m].ev # "visit"

\* every on_ascent closes the innermost open on_descent, which is of the
\* same parent; none is left open
AscentsMatchDescents ==
    /\ DepthAfter(Len(Calls)) = 0
    /\ \A j \in 1..Len(Calls) : Calls[j].ev = "ascent" =>
          \E i \in 1..(j - 1) :
              /\ Calls[i].ev = "descent"
              /\ Calls[i].from = Calls[j].to
              /\ DepthAfter(i) = DepthAfter(j) + 1
              /\ \A m \in i..(j - 1) : DepthAfter(m) >= DepthAfter(i)

\* C17: when traverse_with_depth has returned, on_descent(p, first child
\* of p) has fired once for each visited, non-pruned node p with children,
\* just before cb on that child; on_ascent(last visited, p) has fired once
\* for each such p, after its visited descendants and before any later
\* node; and every on_ascent is matched by an earlier on_descent of the
\* same parent, the two firing equally often.
C17_DescentsAndAscentsNested ==
    wk_pc = "done" =>
        /\ DescentsBeforeFirstChild
        /\ AscentsAfterDescendants
        /\ AscentFromLastVisited
        /\ AscentsMatchDescents

\* the on_ascent calls as the code makes them: its first argument is the
\* child of p the walk comes up from, and a walk that never descends, its
\* root having no children or being pruned, still makes one call
\* on_ascent(root, root), which no on_descent precedes
AscentsOfTheCode ==
    wk_pc = "done" =>
        /\ DescentsBeforeFirstChild
        /\ AscentsAfterDescendants
        /\ \A j \in 1..Len(Calls) : Calls[j].ev = "ascent" /\ Calls[j].to \in Descended =>
              /\ Parent(wk_tree, Calls[j].from) = Calls[j].to
              /\ NextSibling(wk_tree, Calls[j].from) = 0
        /\ IF wk_root \in Descended
           THEN AscentsMatchDescents
           ELSE Calls = << [ev |-> "visit", from |-> wk_root, to |-> wk_root],
                           [ev |-> "ascent", from |-> wk_root, to |-> wk_root] >>

\* the descents and ascents are matched on every walk that descends at all
AscentsMatchedBelowRoot == (wk_pc = "done" /\ wk_root \in Descended) => AscentsMatchDescents

\* ------------------------------------------------------------------------
\* Claims about the reach of a slice
\* ------------------------------------------------------------------------

\* the enclosing function of the target name: its nearest ancestor, or the
\* name itself, of a slice scope kind
EnclosingFunctions ==
    LET up == {n \in Ancestors(sl_tree, sl_target) \cup {sl_target} :
                  Kind(sl_tree, n) \in slice_scope_types}
    IN  {n \in up : \A m \in up : m = n \/ m \in Ancestors(sl_tree, n)}

\* C19: the slice is local to the enclosing function of the target name:
\* every node marked for deletion and every returned range lies inside the
\* byte range of that function, so no text outside it is marked.
C19_SliceInsideEnclosingFunction ==
    SliceOk =>
        \E fn \in EnclosingFunctions :
            /\ \A i \in 1..Len(sl_delete_nodes) :
                  /\ fn \in Ancestors(sl_tree, sl_delete_nodes[i])
                  /\ sl_tree[fn].start_byte <= sl_tree[sl_delete_nodes[i]].start_byte
                  /\ sl_tree[sl_delete_nodes[i]].end_byte <= sl_tree[fn].end_byte
            /\ \A i \in 1..Len(sl_ranges) :
                  /\ sl_tree[fn].start_byte <= sl_ranges[i].start_byte
                  /\ sl_ranges[i].start_byte <= sl_ranges[i].end_byte
                  /\ sl_ranges[i].end_byte <= sl_tree[fn].end_byte

\* a slice has returned ranges while the declaration that follows the
\* function mentions no target name either, and is left alone
C19_Witness ==
    /\ SliceOk
    /\ sl_ranges # <<>>
    /\ \A n \in sl_names : ~affects(n, << <<"w">> >>)
    /\ \E d \in Nodes(sl_tree) :
          /\ Kind(sl_tree, d) = "declaration"
          /\ Parent(sl_tree, d) = 1
          /\ \A i \in 1..Len(sl_ranges) : sl_ranges[i].end_byte <= sl_tree[d].start_byte

\* ------------------------------------------------------------------------
\* Claims about the propagation of targets
\* ------------------------------------------------------------------------

\* propagate_targets has just returned (slicer.rs:380)
Propagated == sl_pc = "flatten"

\* the names the Backward rule adds to the set S
BackwardAdds(S) ==
    UNION {RefsNames(n) : n \in {m \in PropagatingNodes :
                                    \E t \in S : \E d \in DefsNames(m) : affects(t, d)}}

RECURSIVE BackwardClosure(_)
\* the least set that holds S and is closed under the Backward rule
BackwardClosure(S) ==
    IF BackwardAdds(S) \subseteq S THEN S ELSE BackwardClosure(S \cup BackwardAdds(S))

\* propagation has returned for scenario S5: Backward, target s.z
S5Propagated ==
    /\ Propagated
    /\ sl_src = TermText(S5Program)
    /\ sl_direction = "Backward"
    /\ TargetComponents = << <<"s">>, <<"z">> >>

\* C20: the set Backward propagation returns is closed under its rule: for
\* every propagating node of the enclosing function with both fields, if a
\* target affects a name of the defs field then every name of the refs
\* field is a target; nothing else is added, so the set is the least such
\* set holding the target name.  With target s.z the write s.y=v adds
\* nothing and the write s=g() adds the names of its right-hand side.
C20_BackwardClosed ==
    (Propagated /\ sl_direction = "Backward") =>
        /\ \A n \in PropagatingNodes : Affected(DefsNames(n)) => RefsNames(n) \subseteq sl_names
        /\ sl_names = BackwardClosure({TargetComponents})
        /\ S5Propagated => sl_names = {<< <<"s">>, <<"z">> >>, << <<"g">> >>}

\* propagation has returned for scenario S5 and the callee of the write to
\* the object is a target
C20_Witness == S5Propagated /\ << <<"g">> >> \in sl_names /\ sl_target # 0

\* ------------------------------------------------------------------------
\* Claims about the scenarios
\* ------------------------------------------------------------------------

\* the texts the returned ranges cover, in order
RemovedTexts ==
    [i \in 1..Len(sl_ranges) |-> Slice(sl_src, sl_ranges[i].start_byte, sl_ranges[i].end_byte)]

\* where the text txt stands in the source, as byte offsets
OffsetsOf(txt) ==
    {o \in 0..(Len(sl_src) - Len(txt)) : Slice(sl_src, o, o + Len(txt)) = txt}

\* the statement txt stands in the source and some returned range covers it
StatementRemoved(txt) ==
    \E o \in OffsetsOf(txt) : \E i \in 1..Len(sl_ranges) :
        sl_ranges[i].start_byte <= o /\ o + Len(txt) <= sl_ranges[i].end_byte

\* the statement txt stands in the source and no returned range touches it
StatementRetained(txt) ==
    /\ OffsetsOf(txt) # {}
    /\ \A o \in OffsetsOf(txt) : \A i \in 1..Len(sl_ranges) :
          sl_ranges[i].end_byte <= o \/ o + Len(txt) <= sl_ranges[i].start_byte

\* slice has returned for scenario S1: Backward, the point on the x of
\* `return x;` (row 0, column 56 or 57)
S1Sliced ==
    /\ SliceOk
    /\ sl_src = TermText(S1Program)
    /\ sl_direction = "Backward"
    /\ sl_point \in {<<0, 56>>, <<0, 57>>}

\* C18 as stated: in scenario S1 the slice retains `int y=0;` and `s.z=x;`
\* and removes `foo=s;` and `foo.y=bar;`.
C18_S1AsStated ==
    S1Sliced =>
        /\ StatementRetained(<<"i", "n", "t", " ", "y", "=", "0", ";">>)
        /\ StatementRetained(<<"s", ".", "z", "=", "x", ";">>)
        /\ StatementRemoved(<<"f", "o", "o", "=", "s", ";">>)
        /\ StatementRemoved(<<"f", "o", "o", ".", "y", "=", "b", "a", "r", ";">>)

\* C18, amended: in scenario S1 the slice retains `int x=0;`, `s.z=x;` and
\* `return x;` and removes `int y=0;`, `foo=s;` and `foo.y=bar;`, as the
\* two ranges `int y=0;` and `foo=s;foo.y=bar;`.
C18_S1Removals ==
    S1Sliced =>
        /\ StatementRetained(<<"i", "n", "t", " ", "x", "=", "0", ";">>)
        /\ StatementRetained(<<"s", ".", "z", "=", "x", ";">>)
        /\ StatementRetained(<<"r", "e", "t", "u", "r", "n", " ", "x", ";">>)
        /\ StatementRemoved(<<"i", "n", "t", " ", "y", "=", "0", ";">>)
        /\ StatementRemoved(<<"f", "o", "o", "=", "s", ";">>)
        /\ StatementRemoved(<<"f", "o", "o", ".", "y", "=", "b", "a", "r", ";">>)
        /\ RemovedTexts = << <<"i", "n", "t", " ", "y", "=", "0", ";">>,
                             <<"f", "o", "o", "=", "s", ";",
                               "f", "o", "o", ".", "y", "=", "b", "a", "r", ";">> >>

\* the slice of scenario S1 has returned, its only target name being x
C18_Witness == S1Sliced /\ sl_names = {<< <<"x">> >>} /\ Len(sl_ranges) = 2

\* ------------------------------------------------------------------------
\* Claims about Forward propagation
\* ------------------------------------------------------------------------

\* the names the Forward rule adds to the set S
ForwardAdds(S) ==
    UNION {DefsNames(n) : n \in {m \in PropagatingNodes :
                                    \E t \in S : \E r \in RefsNames(m) : affects(t, r)}}

RECURSIVE ForwardClosure(_)
\* the least set that holds S and is closed under the Forward rule
ForwardClosure(S) ==
    IF ForwardAdds(S) \subseteq S THEN S ELSE ForwardClosure(S \cup ForwardAdds(S))

\* the slice of scenario S2: Forward, target a
S2Target ==
    /\ sl_src = TermText(S2Program)
    /\ sl_direction = "Forward"
    /\ sl_target # 0
    /\ TargetComponents = << <<"a">> >>

\* C21: the set Forward propagation returns is closed under its rule: for
\* every propagating node with both fields, if a target affects a name of
\* the refs field then every name of the defs field is a target; a name is
\* in the set only if it is the target or was added by such a step, so the
\* set is the least such set.  For c=a+1; d=b+1; return c+d with target a
\* the set holds a and c and not d, d=b+1 is removed and return c+d is kept.
C21_ForwardClosed ==
    /\ (Propagated /\ sl_direction = "Forward") =>
          /\ \A n \in PropagatingNodes :
                Affected(RefsNames(n)) => DefsNames(n) \subseteq sl_names
          /\ sl_names = ForwardClosure({TargetComponents})
    /\ ((Propagated \/ SliceOk) /\ S2Target) =>
          /\ << <<"a">> >> \in sl_names
          /\ << <<"c">> >> \in sl_names
          /\ << <<"d">> >> \notin sl_names
    /\ (SliceOk /\ S2Target) =>
          /\ StatementRemoved(<<"d", "=", "b", "+", "1", ";">>)
          /\ StatementRetained(<<"r", "e", "t", "u", "r", "n", " ", "c", "+", "d", ";">>)
          /\ StatementRetained(<<"c", "=", "a", "+", "1", ";">>)

\* the slice of scenario S2 has returned with one range and the targets a, c
C21_Witness ==
    /\ SliceOk
    /\ S2Target
    /\ Len(sl_ranges) = 1
    /\ sl_names = {<< <<"a">> >>, << <<"c">> >>}

\* ------------------------------------------------------------------------
\* Claims about the loop of propagate_targets
\* ------------------------------------------------------------------------

\* a pass only adds names and is followed by the exit test, which sees no
\* change of length exactly when no name was added; the test leaves the
\* names alone and exits exactly when the length has not changed
PassThenTest ==
    /\ pg_pc = "loop" =>
          /\ pg_names \subseteq pg_names'
          /\ pg_pc' = "test"
          /\ (Cardinality(pg_names') = pg_len_before') <=> (pg_names' = pg_names)
    /\ pg_pc = "test" =>
          /\ pg_names' = pg_names
          /\ pg_pc' \in {"loop", "returned"}
          /\ (pg_pc' = "returned") <=> (Cardinality(pg_names) = pg_len_before)

\* the pass of the loop taken alone is the pass slice makes
PassOfSlice ==
    pg_pc = "loop" =>
        LibraryFor(pg_nodes, 1, pg_direction, pg_names)
            = PropagatePass(pg_src, pg_tree, pg_func, pg_direction, pg_names)

\* C22: propagate_targets terminates for every function body and both
\* directions: the target set only grows from pass to pass, always
\* contains the initial target, and the loop exits after the first pass
\* that adds no name
C22_PropagationTerminates ==
    /\ (pg_pc = "loop") ~> (pg_pc = "returned")
    /\ [][PassThenTest]_vars
    /\ [](pg_initial \in pg_names)
    /\ []PassOfSlice

\* the loop has returned after a pass that added a name the first pass
\* had not reached
C22_Witness ==
    /\ pg_pc = "returned"
    /\ \E n \in pg_names : \E m \in pg_names :
          /\ n # pg_initial /\ m # pg_initial
          /\ n \notin LibraryFor(pg_nodes, 1, pg_direction, {pg_initial})
          /\ m \in LibraryFor(pg_nodes, 1, pg_direction, {pg_initial})


\* ------------------------------------------------------------------------
\* Claims about the loop of the stand-alone binary
\* ------------------------------------------------------------------------

\* names is closed under the rule of the binary (main.rs:256-260): a
\* target affecting a name of the source field puts every name of the
\* target field in the set
BinaryClosed(names) ==
    \A i \in 1..Len(pg_nodes) :
        (/\ pg_nodes[i].kind \in binary_propagating_types
         /\ \E t \in names : \E s \in pg_nodes[i].refs : affects(t, s))
            => pg_nodes[i].defs \subseteq names

\* C30: the loop of the binary's propagate_targets terminates for every
\* function body, also when an assignment's target name is already a
\* target, and on exit the target set is closed under the rule
C30_BinaryTerminatesClosed ==
    /\ (pg_pc = "loop") ~> (pg_pc = "returned")
    /\ [](pg_pc = "returned" => BinaryClosed(pg_names))

\* the part of C30 about the exit alone: the set returned is closed
C30_ClosedOnExit == pg_pc = "returned" => BinaryClosed(pg_names)

\* the part of C30 about termination alone
C30_Terminates == (pg_pc = "loop") ~> (pg_pc = "returned")

\* x = x + 1 with the target x: the exit test has found changed set
C30_IncrementLoops ==
    /\ pg_src = TermText(IncrementProgram)
    /\ pg_initial = << <<"x">> >>
    /\ pg_pc = "test"
    /\ pg_changed
    /\ pg_len_before = 0

\* ------------------------------------------------------------------------
\* Claims about flatten_unreferenced
\* ------------------------------------------------------------------------

\* flatten_unreferenced has just returned
Flattened == sl_pc = "coalesce"

\* the nodes emitted for deletion
Emitted == Elems(sl_delete_nodes)

\* the references set of the first walk for the final target set
FinalReferences == References(sl_src, sl_tree, sl_func, sl_names)

\* C23: flatten_unreferenced emits a node exactly when its kind is a
\* statement kind, it is not in the references set and none of its
\* ancestors has been emitted; the emitted list is in document order and
\* no emitted node is a descendant of another
C23_EmittedExactly ==
    Flattened =>
        LET refs == FinalReferences
        IN  /\ \A n \in Subtree(sl_tree, sl_func) :
                  n \in Emitted <=>
                      /\ contains_subtype(statement_types, Kind(sl_tree, n))
                      /\ n \notin refs
                      /\ Ancestors(sl_tree, n) \cap Emitted = {}
            /\ Emitted \subseteq Subtree(sl_tree, sl_func)
            /\ \A i \in 1..Len(sl_delete_nodes) : \A j \in 1..Len(sl_delete_nodes) :
                  i < j =>
                     /\ sl_tree[sl_delete_nodes[i]].end_byte
                            <= sl_tree[sl_delete_nodes[j]].start_byte
                     /\ ~InSubtree(sl_tree, sl_delete_nodes[i], sl_delete_nodes[j])
                     /\ ~InSubtree(sl_tree, sl_delete_nodes[j], sl_delete_nodes[i])

\* a statement nested in a compound statement is emitted while the
\* compound statement, a statement itself, is kept; another statement is
\* emitted before it
C23_Witness ==
    /\ Flattened
    /\ \E i \in 1..Len(sl_delete_nodes) :
          /\ i > 1
          /\ \E a \in Ancestors(sl_tree, sl_delete_nodes[i]) :
                /\ contains_subtype(statement_types, Kind(sl_tree, a))
                /\ a \in FinalReferences
                /\ Retained(a)

\* ------------------------------------------------------------------------
\* Claims about coalesce_ranges
\* ------------------------------------------------------------------------

\* b follows a in the tree: b is the next sibling of a, or of the nearest
\* ancestor of a that has a next sibling
AstAdjacent(a, b) ==
    \E c \in {a} \cup Ancestors(sl_tree, a) :
        /\ NextSibling(sl_tree, c) = b
        /\ \A d \in {a} \cup Ancestors(sl_tree, a) :
              (d # c /\ InSubtree(sl_tree, c, d)) => NextSibling(sl_tree, d) = 0

\* the indexes after which a run of the emitted list ends before the list does
RunBreaks ==
    {i \in 1..(Len(sl_delete_nodes) - 1) :
        ~AstAdjacent(sl_delete_nodes[i], sl_delete_nodes[i + 1])}

\* the first and the last index of the run entry i is in, and the number
\* of that run
RunFirstOf(i) ==
    CHOOSE j \in 1..i :
        /\ j = 1 \/ (j - 1) \in RunBreaks
        /\ \A k \in j..(i - 1) : k \notin RunBreaks

RunLastOf(i) ==
    CHOOSE j \in i..Len(sl_delete_nodes) :
        /\ j = Len(sl_delete_nodes) \/ j \in RunBreaks
        /\ \A k \in i..(j - 1) : k \notin RunBreaks

RunNumberOf(i) == Cardinality({b \in RunBreaks : b < i}) + 1

\* the range covers the node
RangeCoversNode(r, n) ==
    r.start_byte <= sl_tree[n].start_byte /\ sl_tree[n].end_byte <= r.end_byte

\* C24: coalesce_ranges cuts the emitted list into maximal runs of
\* entries each AST-adjacent to the one before; each run yields one range,
\* from the start of its first node to the end of its last, in bytes and
\* in points; every emitted node is covered by exactly one range
C24_RangesAreMaximalRuns ==
    SliceOk =>
        /\ Len(sl_ranges) =
              IF sl_delete_nodes = <<>> THEN 0 ELSE Cardinality(RunBreaks) + 1
        /\ \A i \in 1..Len(sl_delete_nodes) :
              LET first == sl_delete_nodes[RunFirstOf(i)]
                  last == sl_delete_nodes[RunLastOf(i)]
                  r == sl_ranges[RunNumberOf(i)]
              IN  /\ RunNumberOf(i) \in 1..Len(sl_ranges)
                  /\ r.start_byte = sl_tree[first].start_byte
                  /\ r.start_point = StartPoint(sl_tree, first)
                  /\ r.end_byte = sl_tree[last].end_byte
                  /\ r.end_point = EndPoint(sl_tree, last)
                  /\ Cardinality({k \in 1..Len(sl_ranges) :
                         RangeCoversNode(sl_ranges[k], sl_delete_nodes[i])}) = 1

\* a slice whose emitted list has a run continued by the next sibling of
\* an ancestor of its first node: one range from the one to the other
C24_Witness ==
    /\ SliceOk
    /\ \E i \in 1..(Len(sl_delete_nodes) - 1) :
          /\ AstAdjacent(sl_delete_nodes[i], sl_delete_nodes[i + 1])
          /\ NextSibling(sl_tree, sl_delete_nodes[i]) # sl_delete_nodes[i + 1]
          /\ sl_ranges[RunNumberOf(i)].start_byte = sl_tree[sl_delete_nodes[i]].start_byte
          /\ sl_ranges[RunNumberOf(i)].end_byte = sl_tree[sl_delete_nodes[i + 1]].end_byte

\* ------------------------------------------------------------------------
\* Claims about the subtype table
\* ------------------------------------------------------------------------

\* the types the descriptor declares, and the subtypes it declares for t
DeclaredTypes == {st_node_types[i].type : i \in 1..Len(st_node_types)}

DeclaredSubtypes(t) ==
    UNION {Elems(st_node_types[i].subtypes) :
              i \in {j \in 1..Len(st_node_types) : st_node_types[j].type = t}}

\* the table is built
TableBuilt == st_pc \in {"lookup", "done"}

\* every declared type maps to itself plus every declared subtype
DeclaredExpanded ==
    \A t \in DeclaredTypes :
        /\ t \in DOMAIN st_subtypes
        /\ Elems(st_subtypes[t]) = {t} \cup DeclaredSubtypes(t)

\* the first configured name the descriptor does not declare; 0 if none
FirstUndeclared ==
    LET und == {i \in 1..Len(st_types) : st_types[i] \notin DeclaredTypes}
    IN  IF und = {} THEN 0 ELSE CHOOSE i \in und : \A j \in und : i <= j

\* the first configured name whose declared expansion holds the kind; 0
\* if none
FirstHit ==
    LET hit == {i \in 1..Len(st_types) :
                   /\ st_types[i] \in DeclaredTypes
                   /\ st_kind \in {st_types[i]} \cup DeclaredSubtypes(st_types[i])}
    IN  IF hit = {} THEN 0 ELSE CHOOSE i \in hit : \A j \in hit : i <= j

\* C25: every declared type maps to itself plus every declared
\* subtype, a name the descriptor does not declare resolves to the
\* singleton of itself, and contains_subtype answers true or false for
\* any configured type name and any node, without failing
C25_UnknownNamesAreSingletons ==
    /\ TableBuilt =>
          /\ DeclaredExpanded
          /\ \A t \in TypeNames \ DeclaredTypes :
                t \in DOMAIN st_subtypes /\ st_subtypes[t] = <<t>>
    /\ st_pc = "done" => st_result \in {"true", "false"}

\* what the code does: every declared type maps to itself plus every
\* declared subtype, and a name the descriptor does not declare has no
\* entry; contains_subtype, in the middle of a slice, panics when it comes
\* to a configured name without an entry before a name whose entry holds
\* the kind, and answers true or false otherwise; every name of the C
\* configuration has an entry
C25_UnknownNamesHaveNoEntry ==
    /\ TableBuilt =>
          /\ DeclaredExpanded
          /\ DOMAIN st_subtypes = DeclaredTypes
    /\ st_pc = "done" =>
          st_result =
              IF FirstUndeclared # 0 /\ (FirstHit = 0 \/ FirstUndeclared < FirstHit)
              THEN "panic"
              ELSE IF FirstHit # 0 THEN "true" ELSE "false"
    /\ \A i \in 1..Len(statement_types) : statement_types[i] \in DOMAIN subtypes
    /\ \A k \in NodeKinds : AnyContains(subtypes, statement_types, k, 1) # "panic"

\* contains_subtype has come to a configured name the descriptor does not
\* declare, after a declared name whose entry does not hold the kind
C25_UndeclaredNamePanics ==
    /\ st_pc = "done"
    /\ st_result = "panic"
    /\ FirstUndeclared = 2
    /\ DeclaredSubtypes(st_types[1]) # {}

\* ------------------------------------------------------------------------
\* Claims about the indentation of the inlined body
\* ------------------------------------------------------------------------

\* the leading whitespace of the callsite's line
CallsiteWhitespace ==
    LeadingWhitespace(SplitLines(inl_src)[StartPoint(inl_tree, inl_callsite)[1] + 1])

\* C26: the inlined body is re-indented to the callsite: the body's
\* original leading whitespace is stripped from each of its lines, and
\* each line of the inlined body starts with exactly the leading
\* whitespace of the callsite's line
C26_BodyReindented ==
    InlineOk =>
        \A line \in Elems(SplitLines(InlinedBody)) :
            LeadingWhitespace(line) = CallsiteWhitespace

\* what holds of the code: each line of the inlined body starts with the
\* leading whitespace of the callsite's line, the line's own indentation
\* in the callee following it
C26_CallsiteWhitespacePrefixed ==
    InlineOk =>
        \A line \in Elems(SplitLines(InlinedBody)) :
            StartsWith(line, CallsiteWhitespace)

\* a body of several lines inlined at an indented callsite
C26_IndentedBodyInlined ==
    /\ InlineOk
    /\ Len(SplitLines(InlinedBody)) > 1
    /\ CallsiteWhitespace # <<>>

\* ------------------------------------------------------------------------
\* Claims about the references set
\* ------------------------------------------------------------------------

\* the name nodes of the enclosing function that lie in no other name node
OutermostNames ==
    {m \in Subtree(sl_tree, sl_func) :
        /\ Kind(sl_tree, m) \in name_types
        /\ \A a \in Ancestors(sl_tree, m) : Kind(sl_tree, a) \notin name_types}

\* the outermost names that a target name affects
AffectedNames ==
    {m \in OutermostNames :
        \E t \in sl_names : affects(t, name_components(sl_src, sl_tree, m))}

\* the nodes whose subtree holds an outermost name that a target affects
HoldsAffectedName == UNION {{m} \cup Ancestors(sl_tree, m) : m \in AffectedNames}

\* C27: the references set built in one pass of traverse_with_depth is
\* the set of the nodes of the enclosing function whose subtree holds a
\* name node, in no other name node, that a target name affects; the
\* function root included
C27_ReferencesAsDefined ==
    Flattened =>
        FinalReferences = HoldsAffectedName \cap Subtree(sl_tree, sl_func)

\* the function root is in the set, through a node whose last child is
\* not in it, and a node with children is left out
C27_Witness ==
    /\ Flattened
    /\ sl_func \in FinalReferences
    /\ \E n \in FinalReferences :
          /\ Children(sl_tree, n) # <<>>
          /\ Children(sl_tree, n)[Len(Children(sl_tree, n))] \notin FinalReferences
    /\ \E n \in Subtree(sl_tree, sl_func) :
          Children(sl_tree, n) # <<>> /\ n \notin FinalReferences
    /\ \E m \in Subtree(sl_tree, sl_func) :
          /\ Kind(sl_tree, m) \in name_types
          /\ m \notin OutermostNames
          /\ \E t \in sl_names : affects(t, name_components(sl_src, sl_tree, m))

\* ------------------------------------------------------------------------
\* Claims about the row of the anchor
\* ------------------------------------------------------------------------

\* the part of C28 about the subtractions: the row the code subtracts from
\* is never smaller than what it subtracts, for the range taken next too
C28_NoUnderflow ==
    /\ dr_target_point[1] >= 0
    /\ (dr_pc = "loop" /\ dr_k <= Len(dr_ranges)
        /\ dr_ranges[dr_k].end_point[1] < dr_target_point[1])
          => DeletedLines(SplitLines(dr_src), dr_ranges[dr_k]) <= dr_target_point[1]

\* C28: the row subtractions applied to the anchor never take its row
\* below zero, and the row returned is a line index of the output text,
\* also when several ranges above the anchor share a source line
C28_RowStaysValid ==
    /\ C28_NoUnderflow
    /\ dr_pc = "done" => dr_target_point[1] < Len(SplitLines(dr_out))

\* two ranges on one source line above the anchor have been taken
C28_TwoRangesOnALineAbove ==
    /\ dr_pc = "done"
    /\ \E j \in 1..Len(dr_ranges) : \E k \in 1..Len(dr_ranges) :
          /\ j < k
          /\ dr_ranges[j].end_point[1] = dr_ranges[k].start_point[1]
          /\ dr_ranges[k].end_point[1] < dr_anchor[1]

\* ------------------------------------------------------------------------
\* Claims about the substitution of parameters
\* ------------------------------------------------------------------------

RECURSIVE Substituted(_)
\* the text of a node of the callee with every occurrence of a parameter
\* paired replaced by the parameter's text in the map, also where the
\* parameter is the leading component of a qualified name
Substituted(n) ==
    LET T == inl_target_tree
        cs == Children(T, n)
    IN  IF /\ Kind(T, n) \in name_types
           /\ RenameOf(ParameterMap, name_components(inl_target_content, T, n)) # <<>>
        THEN RenameOf(ParameterMap, name_components(inl_target_content, T, n))[1]
        ELSE IF cs = <<>> THEN NodeText(inl_target_content, T, n)
        ELSE Concat([i \in 1..Len(cs) |->
                        Slice(inl_target_content,
                              IF i = 1 THEN T[n].start_byte ELSE T[cs[i - 1]].end_byte,
                              T[cs[i]].start_byte)
                        \o Substituted(cs[i])])
             \o Slice(inl_target_content, T[cs[Len(cs)]].end_byte, T[n].end_byte)

\* the statements of the callee's body that stay in the inlined body
KeptBodyStatements ==
    LET T == inl_target_tree
        body == inl_function_params[1].function_body
    IN  {c \in Elems(Children(T, body)) :
            /\ T[c].named
            /\ ~(Cardinality(CalleeReturns) = 1 /\ c \in CalleeReturns)}

\* the qualified names of the callee whose leading component is a
\* parameter paired
QualifiedParameterUses ==
    {n \in Subtree(inl_target_tree, CalleeDefinition) :
        /\ Kind(inl_target_tree, n) = "field_expression"
        /\ LET cmp == name_components(inl_target_content, inl_target_tree, n)
           IN  /\ Len(cmp) > 1
               /\ RenameOf(ParameterMap, cmp) = <<>>
               /\ RenameOf(ParameterMap, <<cmp[1]>>) # <<>>}

\* C29: in the inlined body and in the expression that replaces the call
\* every occurrence of a callee parameter is substituted by its mapped
\* text, also where the parameter is the leading component of a qualified
\* name such as p.x
C29_EveryOccurrenceSubstituted ==
    InlineOk =>
        /\ Cardinality(CalleeReturns) = 1 =>
              inl_callsite_text =
                  Substituted(ReturnValueOf(CHOOSE n \in CalleeReturns : TRUE))
        /\ \A c \in KeptBodyStatements :
              Occurrences(StripWhitespace(InlinedBody),
                          StripWhitespace(Substituted(c))) >= 1

\* what holds of the code where caller and callee are one text: the names
\* substituted are those that are, as a whole, a parameter paired
C29_WholeNamesSubstituted ==
    (InlineOk /\ SameText) =>
        /\ Cardinality(CalleeReturns) = 1 =>
              inl_callsite_text = Renamed(ReturnValueOf(CHOOSE n \in CalleeReturns : TRUE))
        /\ \A c \in KeptBodyStatements :
              Occurrences(StripWhitespace(InlinedBody),
                          StripWhitespace(Renamed(c))) >= 1

\* a successful inline of a callee that uses a field of a mapped
\* parameter, caller and callee being one text
C29_QualifiedUseInlined ==
    /\ InlineOk
    /\ SameText
    /\ QualifiedParameterUses # {}
    /\ Cardinality(CalleeReturns) = 1

\* where caller and callee are one text, apart from qualified uses of a
\* parameter every occurrence is substituted
C29_SubstitutedButForQualifiedUses ==
    (InlineOk /\ SameText /\ QualifiedParameterUses = {}) =>
        /\ Cardinality(CalleeReturns) = 1 =>
              inl_callsite_text =
                  Substituted(ReturnValueOf(CHOOSE n \in CalleeReturns : TRUE))
        /\ \A c \in KeptBodyStatements :
              Occurrences(StripWhitespace(InlinedBody),
                          StripWhitespace(Substituted(c))) >= 1

\* a successful inline across two texts that leaves a parameter of the
\* callee's body or return value as the callee writes it, though the
\* parameter has a mapped text
C29_ParameterLeftAcrossTexts ==
    /\ InlineOk
    /\ ~SameText
    /\ QualifiedParameterUses = {}
    /\ ParameterMap # {}
    /\ Cardinality(CalleeReturns) = 1
    /\ inl_callsite_text # Substituted(ReturnValueOf(CHOOSE n \in CalleeReturns : TRUE))

\* inline panics where a name of the callee lies beyond the caller's text
C29_PanicAcrossTexts ==
    /\ inl_pc = "done"
    /\ inl_result = <<"panic">>
    /\ ~SameText
    /\ inl_function_params # <<>>

\* ------------------------------------------------------------------------
\* Claims about NameRef
\* ------------------------------------------------------------------------

\* C7: affects(a, b) is true exactly when the shorter component sequence is
\* a prefix of the longer; it holds of a name and itself, gives the same
\* answer with its arguments exchanged, and s.x does not affect s.y.
C7_AffectsIsPrefixOverlap ==
    aff_pc = "done" =>
        /\ aff_result <=> (IsPrefix(aff_a, aff_b) \/ IsPrefix(aff_b, aff_a))
        /\ aff_a = aff_b => aff_result
        /\ aff_result <=> affects(aff_b, aff_a)
        /\ (aff_a = <<"s", "x">> /\ aff_b = <<"s", "y">>) => ~aff_result

\* affects applied to s.x and s: the longer name first
C7_Witness ==
    /\ aff_pc = "done"
    /\ aff_a = <<"s", "x">>
    /\ aff_b = <<"s">>
    /\ aff_result

====
